---- MODULE Spec2Model ----
(***************************************************************************)
(* Model of the DDT dataset generator backend: the comparison engine       *)
(* (processing/comparison.py), the processing pipeline                     *)
(* (processing/pipeline.py), the batch endpoints (api/routes.py), the      *)
(* repositories (database/repository.py) and the three extractor adapters  *)
(* (extractors/datalab.py, azure_ocr.py, gemini.py).                       *)
(*                                                                         *)
(* Python coroutines run on one event loop: the code between two awaits    *)
(* that really suspend runs without interleaving, so each action below is  *)
(* one such stretch of code.                                               *)
(***************************************************************************)
EXTENDS Integers, Sequences, FiniteSets, TLC

(***************************************************************************)
(* Values                                                                  *)
(***************************************************************************)
\* Python None where the other values are strings (error texts, raw texts).
None == "None"

\* JSON values of an extracted document: null, a string (a sequence of
\* one-character strings) or a number.
JNull == [t |-> "null"]
JStr(s) == [t |-> "str", s |-> s]
JNum(n) == [t |-> "num", n |-> n]

\* The empty JSON object {}.  A document is a function from keys to values.
EmptyJson == << >>

\* Optional values that are not strings (documents, lists, scores, results):
\* Nothing is None, Some(x) is x.
Nothing == << >>
Some(x) == << x >>

\* Mutant of Truthy: "is not None" instead of the truth value.
TruthyNotNone(d) == TRUE

\* Python truthiness of a dict.
Truthy(d) == DOMAIN d # {}

\* dict.get(key): the value, or None for a missing key.
Get(d, key) == IF key \in DOMAIN d THEN d[key] ELSE JNull

(***************************************************************************)
(* processing/comparison.py                                                *)
(***************************************************************************)
DDT_FIELDS ==
    << "mittente", "destinatario", "indirizzo_destinazione_completo",
       "data_documento", "data_trasporto", "numero_documento",
       "numero_ordine", "codice_cliente" >>

FieldSet == { DDT_FIELDS[i] : i \in 1..Len(DDT_FIELDS) }

Whitespace == { " ", "\t", "\n" }
TrailingPunct == { ".", ",", ";", ":" }
Digits == << "0", "1", "2", "3", "4", "5", "6", "7", "8", "9" >>

\* str.lower() on one character of the model's alphabet.
LowerChar(c) ==
    CASE c = "A" -> "a"
      [] c = "B" -> "b"
      [] c = "C" -> "c"
      [] OTHER -> c

Lower(s) == [i \in 1..Len(s) |-> LowerChar(s[i])]

\* str(value) of a non-negative integer.
RECURSIVE StrOfNat(_)
StrOfNat(n) ==
    IF n < 10 THEN << Digits[n + 1] >>
    ELSE StrOfNat(n \div 10) \o << Digits[(n % 10) + 1] >>

\* str.strip(): drop leading and trailing whitespace.
RECURSIVE LStrip(_)
LStrip(s) ==
    IF s # << >> /\ Head(s) \in Whitespace THEN LStrip(Tail(s)) ELSE s

RECURSIVE RStrip(_)
RStrip(s) ==
    IF s # << >> /\ s[Len(s)] \in Whitespace
    THEN RStrip(SubSeq(s, 1, Len(s) - 1))
    ELSE s

Strip(s) == RStrip(LStrip(s))

\* re.sub(r'\s+', ' ', value): every run of whitespace becomes one space.
RECURSIVE CollapseSpaces(_)
CollapseSpaces(s) ==
    IF s = << >> THEN << >>
    ELSE IF Head(s) \in Whitespace
         THEN << " " >> \o CollapseSpaces(LStrip(s))
         ELSE << Head(s) >> \o CollapseSpaces(Tail(s))

\* re.sub(r'[.,;:]+$', '', value): drop the trailing run of punctuation.
RECURSIVE StripTrailingPunct(_)
StripTrailingPunct(s) ==
    IF s # << >> /\ s[Len(s)] \in TrailingPunct
    THEN StripTrailingPunct(SubSeq(s, 1, Len(s) - 1))
    ELSE s

\* normalize(value): None stays None; a non-string is converted with str();
\* lower, strip, collapse whitespace, drop trailing punctuation; an empty
\* result is None.
normalize(value) ==
    IF value = JNull THEN JNull
    ELSE LET str == IF value.t = "num" THEN StrOfNat(value.n) ELSE value.s
             v   == StripTrailingPunct(CollapseSpaces(Strip(Lower(str))))
         IN  IF v # << >> THEN JStr(v) ELSE JNull

\* Length of the common prefix of a[i..] and b[j..].
RECURSIVE CommonLen(_, _, _, _)
CommonLen(a, b, i, j) ==
    IF i <= Len(a) /\ j <= Len(b) /\ a[i] = b[j]
    THEN 1 + CommonLen(a, b, i + 1, j + 1)
    ELSE 0

\* difflib.SequenceMatcher.find_longest_match without junk: the longest
\* common block, of those the one starting earliest in a, of those the one
\* starting earliest in b.
LongestMatch(a, b) ==
    LET blocks == { [i |-> i, j |-> j, k |-> CommonLen(a, b, i, j)] :
                        i \in 1..Len(a), j \in 1..Len(b) }
        kmax   == CHOOSE k \in { m.k : m \in blocks } :
                        \A m \in blocks : m.k <= k
        imin   == CHOOSE i \in { m.i : m \in { n \in blocks : n.k = kmax } } :
                        \A m \in blocks : m.k = kmax => i <= m.i
        jmin   == CHOOSE j \in { m.j : m \in { n \in blocks :
                                                n.k = kmax /\ n.i = imin } } :
                        \A m \in blocks :
                            (m.k = kmax /\ m.i = imin) => j <= m.j
    IN  [i |-> imin, j |-> jmin, k |-> kmax]

\* Total size of SequenceMatcher.get_matching_blocks(): the longest block,
\* then recursively the pieces to its left and to its right.
RECURSIVE MatchingSize(_, _)
MatchingSize(a, b) ==
    IF a = << >> \/ b = << >> THEN 0
    ELSE LET m == LongestMatch(a, b)
         IN  IF m.k = 0 THEN 0
             ELSE m.k
                  + MatchingSize(SubSeq(a, 1, m.i - 1), SubSeq(b, 1, m.j - 1))
                  + MatchingSize(SubSeq(a, m.i + m.k, Len(a)),
                                 SubSeq(b, m.j + m.k, Len(b)))

\* The fuzzy path applies when a normalized string is longer than this.
FuzzyMinLen == 20

\* fuzzy_threshold = 0.85, in percent.
FuzzyThresholdPct == 85

\* Mutant of RatioAtLeast: every two long strings are similar enough.
RatioAlways(s1, s2, pct) == TRUE

\* SequenceMatcher(None, s1, s2).ratio() >= fuzzy_threshold, where
\* ratio = 2 * M / (len(s1) + len(s2)).
RatioAtLeast(s1, s2, pct) ==
    2 * MatchingSize(s1, s2) * 100 >= pct * (Len(s1) + Len(s2))

\* Mutant of values_match: a value missing on one side matches anything.
values_match_null_lenient(val1, val2) ==
    val1 = JNull \/ val2 = JNull \/ normalize(val1) = normalize(val2)

\* values_match(val1, val2, fuzzy_threshold=0.85)
values_match(val1, val2) ==
    IF val1 = JNull /\ val2 = JNull THEN TRUE
    ELSE IF val1 = JNull \/ val2 = JNull THEN FALSE
    ELSE LET norm1 == normalize(val1)
             norm2 == normalize(val2)
         IN  IF norm1 = JNull /\ norm2 = JNull THEN TRUE
             ELSE IF norm1 = JNull \/ norm2 = JNull THEN FALSE
             ELSE IF norm1 = norm2 THEN TRUE
             ELSE IF Len(norm1.s) > FuzzyMinLen \/ Len(norm2.s) > FuzzyMinLen
                  THEN RatioAtLeast(norm1.s, norm2.s, FuzzyThresholdPct)
                  ELSE FALSE

\* Mutant of calculate_match_score: every field is listed as a discrepancy.
calculate_match_score_all_listed(datalab_output, gemini_output) ==
    [matches |->
        Cardinality({ n \in 1..Len(DDT_FIELDS) :
            values_match(Get(datalab_output, DDT_FIELDS[n]),
                         Get(gemini_output, DDT_FIELDS[n])) }),
     total_fields |-> Len(DDT_FIELDS),
     discrepancies |-> DDT_FIELDS]

\* Mutant of calculate_match_score: no field is listed as a discrepancy.
calculate_match_score_none_listed(datalab_output, gemini_output) ==
    [matches |->
        Cardinality({ n \in 1..Len(DDT_FIELDS) :
            values_match(Get(datalab_output, DDT_FIELDS[n]),
                         Get(gemini_output, DDT_FIELDS[n])) }),
     total_fields |-> Len(DDT_FIELDS),
     discrepancies |-> << >>]

\* calculate_match_score(datalab_output, gemini_output): the loop over
\* DDT_FIELDS counts the matching fields and lists the others, in field
\* order; the score is the fraction matches / total_fields, kept as its two
\* integers.
calculate_match_score(datalab_output, gemini_output) ==
    [matches |->
        Cardinality({ n \in 1..Len(DDT_FIELDS) :
            values_match(Get(datalab_output, DDT_FIELDS[n]),
                         Get(gemini_output, DDT_FIELDS[n])) }),
     total_fields |-> Len(DDT_FIELDS),
     discrepancies |->
        SelectSeq(DDT_FIELDS,
                  LAMBDA field :
                      ~values_match(Get(datalab_output, field),
                                    Get(gemini_output, field)))]


(***************************************************************************)
(* Bounds and program constants                                            *)
(***************************************************************************)
\* Number of rows of dataset_samples (ids 1..n) in each specification.
NumSamples == 1
BatchSamples == 3
ApiSamples == 1

\* Number of POST /process requests where several are made.
MaxRequests == 2

\* Number of repository calls that raise, in each specification.
MaxFaults == 2
BatchFaults == 1

\* settings.MAX_PARALLEL_PDFS
MAX_PARALLEL_PDFS == 2

\* auto_validation_threshold = 0.95, in percent.
AutoValidationThresholdPct == 95

\* The largest number of tasks of one run.
MaxTasks ==
    LET n == IF NumSamples > BatchSamples THEN NumSamples ELSE BatchSamples
    IN  IF n > ApiSamples THEN n ELSE ApiSamples

\* An id without a row in dataset_samples.
UnknownId == 0

RunIds == 1..MaxRequests

(***************************************************************************)
(* Documents returned by the remote services                               *)
(***************************************************************************)
DocDatalab ==
    [f \in FieldSet |->
        CASE f = "data_trasporto" -> JNull
          [] f = "numero_documento" -> JStr(<< "a", "1" >>)
          [] OTHER -> JStr(<< "a", "b" >>)]

\* Equal to DocDatalab up to case, whitespace and trailing punctuation.
DocGeminiSame ==
    [f \in FieldSet |->
        CASE f = "data_trasporto" -> JNull
          [] f = "numero_documento" -> JStr(<< "A", "1", "." >>)
          [] OTHER -> JStr(<< " ", "A", "B" >>)]

\* Differs from DocDatalab in numero_documento.
DocGeminiDiff ==
    [f \in FieldSet |->
        CASE f = "data_trasporto" -> JNull
          [] f = "numero_documento" -> JStr(<< "a", "2" >>)
          [] OTHER -> JStr(<< "a", "b" >>)]

DatalabDocs == { DocDatalab, EmptyJson }
GeminiDocs == { DocGeminiSame, DocGeminiDiff, EmptyJson }

(***************************************************************************)
(* State                                                                   *)
(***************************************************************************)
VARIABLES
    samples,        \* dataset_samples: id -> row
    stats,          \* the single row of processing_stats
    _is_processing, \* api/routes.py: the module-level flag
    runs,           \* the background tasks _run_batch_processing, by request
    tasks,          \* tasks[r][i]: the i-th process_single call of run r
    semaphore,      \* semaphore[r]: free slots of the pipeline of run r
    remote,         \* what the remote services and the blob store may answer
    requests,       \* requests and operator calls still to come
    faults,         \* repository calls that may still raise
    last_op,        \* the last PATCH request or reset_samples call
    clock,          \* time.time(), in seconds
    kind,           \* the adapter: "datalab", "azure" or "gemini"
    _last_request_time, \* the adapter's field of that name
    callers,        \* the tasks calling extract on the adapter instance
    outbound,       \* the requests the adapter has started, in order
    val1,           \* the first value given to the comparison functions
    val2,           \* the second value given to the comparison functions
    datalab_output, \* the first output given to calculate_match_score
    gemini_output,  \* the second output given to calculate_match_score
    returned,       \* the last call of a comparison function and its result
    result_data     \* the body of Datalab's answer with status "complete"

\* The state of the pipeline and of the API.
pipeline_vars == << samples, stats, _is_processing, runs, tasks, semaphore,
                    remote, requests, faults, last_op >>

\* The state of one adapter instance and of its callers.
adapter_vars == << clock, kind, _last_request_time, callers, outbound >>

\* The inputs and the result of the comparison functions called directly.
comparison_vars == << val1, val2, datalab_output, gemini_output, returned,
                      result_data >>

vars == << pipeline_vars, adapter_vars, comparison_vars >>

(***************************************************************************)
(* database/repository.py                                                  *)
(***************************************************************************)
\* A row of dataset_samples as create_sample leaves it.
NewSample ==
    [filename |-> "ddt.pdf", pdf_storage_path |-> "ddt.pdf",
     status |-> "pending",
     datalab_raw_ocr |-> None, datalab_json |-> Nothing,
     datalab_processing_time_ms |-> Nothing, datalab_error |-> None,
     azure_raw_ocr |-> None, azure_processing_time_ms |-> Nothing,
     azure_error |-> None,
     gemini_json |-> Nothing, gemini_processing_time_ms |-> Nothing,
     gemini_error |-> None,
     match_score |-> Nothing, discrepancies |-> Nothing,
     validated_output |-> Nothing, validation_source |-> None,
     validator_notes |-> None, dataset_split |-> None]

\* The row of processing_stats before any processing.
NewStats ==
    [processed |-> 0, auto_validated |-> 0, needs_review |-> 0,
     errors |-> 0, is_processing |-> FALSE]

\* The effect of table.update(fields) on one row: the named columns change.
Merge(row, fields) ==
    [k \in DOMAIN row |-> IF k \in DOMAIN fields THEN fields[k] ELSE row[k]]

\* SampleRepository.get_sample: the row, or None.
get_sample(S, sample_id) ==
    IF sample_id \in DOMAIN S THEN Some(S[sample_id]) ELSE Nothing

\* The ids of a set as a list, newest first (ids grow with created_at).
RECURSIVE NewestFirst(_)
NewestFirst(ids) ==
    IF ids = {} THEN << >>
    ELSE LET m == CHOOSE x \in ids : \A y \in ids : y <= x
         IN  << m >> \o NewestFirst(ids \ {m})

\* SampleRepository.get_samples(status, limit): the ids of the rows with that
\* status, ordered by created_at descending, at most limit of them.
get_samples(S, status, limit) ==
    LET all == NewestFirst({ id \in DOMAIN S : S[id].status = status })
    IN  SubSeq(all, 1, IF Len(all) < limit THEN Len(all) ELSE limit)

\* Mutant of UpdateRaises: an update that matches no row goes unnoticed.
UpdateNeverRaises(S, sample_id) == FALSE

\* SampleRepository.update_sample raises when no row matches the id.
UpdateRaises(S, sample_id) == sample_id \notin DOMAIN S

\* Mutant of update_sample: the row is left as it was.
update_sample_unwritten(S, sample_id, fields) == S

\* SampleRepository.update_sample when it does not raise.
update_sample(S, sample_id, fields) ==
    [S EXCEPT ![sample_id] = Merge(@, fields)]

\* StatsRepository.update_stats when it does not raise.
update_stats(st, fields) == Merge(st, fields)

\* Mutant of increment_counters: the new values are not written back.
increment_counters_unwritten(st, counters) == st

\* Mutant of increment_counters: the row read is the one from before the
\* batch, as when the read of another task is used.
increment_counters_stale(st, counters) ==
    update_stats(st, [field \in DOMAIN counters |->
                        NewStats[field] + counters[field]])

\* StatsRepository.increment_counters: read the row, add, write back.  The
\* repository is synchronous: no other task runs between the read and the
\* write.
increment_counters(st, counters) ==
    LET current_stats == st
        updates == [field \in DOMAIN counters |->
                        current_stats[field] + counters[field]]
    IN  update_stats(st, updates)

\* StatsRepository.set_processing_flag
set_processing_flag(st, flag) == update_stats(st, [is_processing |-> flag])


(***************************************************************************)
(* What the pipeline sees of the adapters: an extract call either raises   *)
(* or returns a result.  The steps inside extract are modelled further     *)
(* below.                                                                  *)
(***************************************************************************)
Raised(exc) == [raised |-> TRUE, exc |-> exc]
Returned(result) == [raised |-> FALSE, result |-> result]

\* len(None) in the first log line of extract.
TypeErrorNoLen == "object of type 'NoneType' has no len()"

\* The text of an exception raised by a repository call.
StoreFault == "repository call failed"

DatalabFailures == { "Timeout after 100 polls" }
AzureFailures == { "Timeout after 60 polls" }
GeminiFailures == { "Invalid JSON after 2 retries" }

\* processing_time_ms of a result: the time the extract call took.
ProcessingTimeMs == 1

DatalabResult(success, raw_ocr, extracted_json, error_message) ==
    [success |-> success, raw_ocr |-> raw_ocr,
     extracted_json |-> extracted_json, error_message |-> error_message,
     processing_time_ms |-> ProcessingTimeMs]

AzureOCRResult(success, raw_text, error_message) ==
    [success |-> success, raw_text |-> raw_text,
     error_message |-> error_message,
     processing_time_ms |-> ProcessingTimeMs]

GeminiResult(success, extracted_json, error_message) ==
    [success |-> success, extracted_json |-> extracted_json,
     error_message |-> error_message,
     processing_time_ms |-> ProcessingTimeMs]

\* The results DatalabExtractor.extract can return.
DatalabResults ==
    { DatalabResult(TRUE, "markdown", d, None) : d \in DatalabDocs }
    \cup { DatalabResult(FALSE, "", EmptyJson, e) : e \in DatalabFailures }

\* The results AzureOCRExtractor.extract can return.
AzureResults ==
    { AzureOCRResult(TRUE, "content", None) }
    \cup { AzureOCRResult(FALSE, "", e) : e \in AzureFailures }

\* The results GeminiExtractor.extract can return.
GeminiResults ==
    { GeminiResult(TRUE, d, None) : d \in GeminiDocs }
    \cup { GeminiResult(FALSE, EmptyJson, e) : e \in GeminiFailures }

\* The answers to a submission: 202 or a request id, HTTP 429, or another
\* HTTP error.
SubmitAnswers == { "accepted", "429", "http error" }

\* The answers to a poll: the job still runs, a status the adapter does not
\* know, the job is over, it failed, HTTP 429, another HTTP error, or no
\* answer at all.
PollAnswers ==
    { "processing", "unknown", "complete", "failed", "429", "http error",
      "network error" }

\* The outcomes of a model call: text that parses as JSON, text that does
\* not, no answer within the timeout, a quota error, or another error.
GenerateAnswers == { "json", "not json", "timeout", "quota", "error" }

\* Every answer of the remote services and of the blob store.
AnyRemote ==
    [datalab |-> DatalabResults, azure |-> AzureResults,
     gemini |-> GeminiResults, blob |-> { "pdf", None },
     submit |-> SubmitAnswers, poll |-> PollAnswers,
     generate |-> GenerateAnswers]

\* Remote services that work and return non-empty structured outputs; the
\* download of the PDF may still fail, a job may take several polls and the
\* model's text may not parse.
PlainRemote ==
    [datalab |-> { x \in DatalabResults :
                        x.success /\ Truthy(x.extracted_json) },
     azure |-> { x \in AzureResults : x.success },
     gemini |-> { x \in GeminiResults :
                        x.success /\ Truthy(x.extracted_json) },
     blob |-> { "pdf", None },
     submit |-> { "accepted" },
     poll |-> { "processing", "complete" },
     generate |-> { "json", "not json" }]

\* Mutant of datalab_extract: the bytes are not looked at before the try.
datalab_extract_unchecked(pdf_bytes) ==
    { Returned(x) : x \in remote.datalab }

\* DatalabExtractor.extract(pdf_bytes, filename) as the pipeline sees it.
datalab_extract(pdf_bytes) ==
    IF pdf_bytes = None THEN { Raised(TypeErrorNoLen) }
    ELSE { Returned(x) : x \in remote.datalab }

\* AzureOCRExtractor.extract(pdf_bytes, filename) as the pipeline sees it.
azure_extract(pdf_bytes) ==
    IF pdf_bytes = None THEN { Raised(TypeErrorNoLen) }
    ELSE { Returned(x) : x \in remote.azure }

\* GeminiExtractor.extract(ocr_text, filename) as the pipeline sees it.
gemini_extract(ocr_text) ==
    IF ocr_text = None THEN { Raised(TypeErrorNoLen) }
    ELSE { Returned(x) : x \in remote.gemini }

\* storage.get_pdf_bytes: the bytes, or None when the download fails.
get_pdf_bytes == remote.blob

(***************************************************************************)
(* processing/pipeline.py: process_single                                  *)
(***************************************************************************)
ProcessingResult(success, status, match_score, error_message) ==
    [success |-> success, status |-> status, match_score |-> match_score,
     error_message |-> error_message]

NewTask(sample_id) ==
    [pc |-> "new", sample_id |-> sample_id,
     marked |-> FALSE,          \* status PROCESSING was written
     pdf_bytes |-> None,
     datalab_result |-> Nothing, azure_result |-> Nothing,
     gemini_result |-> Nothing,
     result |-> Nothing,        \* the ProcessingResult returned
     update_data |-> Nothing,   \* the fields written by the final update
     error_msg |-> None,        \* the exception caught by the handler
     handler |-> "none"]        \* how far the handler got

\* Mutant of ScoreAtLeast: the bound is ten points too low.
ScoreAtLeastLoose(ms, pct) ==
    ms.matches * 100 >= (pct - 10) * ms.total_fields

\* Mutant of ScoreAtLeast: the threshold is 7/8 whatever pct is.
ScoreAtLeastSevenEighths(ms, pct) == ms.matches * 8 >= 7 * ms.total_fields

\* match_score >= self.auto_validation_threshold
ScoreAtLeast(ms, pct) == ms.matches * 100 >= pct * ms.total_fields

\* Step 6: match score and status (gemini_result is Nothing when not run).
Classify(datalab_result, gemini_result) ==
    IF /\ datalab_result.success
       /\ gemini_result # Nothing
       /\ gemini_result[1].success
       /\ Truthy(datalab_result.extracted_json)
       /\ Truthy(gemini_result[1].extracted_json)
    THEN LET ms == calculate_match_score(datalab_result.extracted_json,
                                         gemini_result[1].extracted_json)
         IN  IF ScoreAtLeast(ms, AutoValidationThresholdPct)
             THEN [status |-> "auto_validated",
                   match_score |-> Some([matches |-> ms.matches,
                                         total_fields |-> ms.total_fields]),
                   discrepancies |-> ms.discrepancies,
                   validated_output |-> datalab_result.extracted_json,
                   validation_source |-> "datalab"]
             ELSE [status |-> "needs_review",
                   match_score |-> Some([matches |-> ms.matches,
                                         total_fields |-> ms.total_fields]),
                   discrepancies |-> ms.discrepancies,
                   validated_output |-> EmptyJson,
                   validation_source |-> "datalab"]
    ELSE IF datalab_result.success /\ Truthy(datalab_result.extracted_json)
    THEN [status |-> "auto_validated",
          match_score |-> Nothing,
          discrepancies |-> << >>,
          validated_output |-> datalab_result.extracted_json,
          validation_source |-> "datalab"]
    ELSE [status |-> "error",
          match_score |-> Nothing,
          discrepancies |-> << >>,
          validated_output |-> EmptyJson,
          validation_source |-> "datalab"]

\* Mutant of UpdateData: only the status and Datalab's outcome are written.
UpdateDataWithoutPathB(c, datalab_result, azure_result, gemini_result) ==
    [status |-> c.status,
     datalab_raw_ocr |-> IF datalab_result.success
                         THEN datalab_result.raw_ocr ELSE None,
     datalab_json |-> IF datalab_result.success
                      THEN Some(datalab_result.extracted_json) ELSE Nothing,
     datalab_processing_time_ms |-> Some(datalab_result.processing_time_ms),
     datalab_error |-> datalab_result.error_message]

\* Step 7: the fields of the final update_sample call.
UpdateData(c, datalab_result, azure_result, gemini_result) ==
    LET base ==
            [status |-> c.status,
             datalab_raw_ocr |-> IF datalab_result.success
                                 THEN datalab_result.raw_ocr ELSE None,
             datalab_json |-> IF datalab_result.success
                              THEN Some(datalab_result.extracted_json)
                              ELSE Nothing,
             datalab_processing_time_ms |->
                    Some(datalab_result.processing_time_ms),
             datalab_error |-> datalab_result.error_message]
        azure ==
            IF azure_result # Nothing
            THEN [azure_raw_ocr |-> IF azure_result[1].success
                                    THEN azure_result[1].raw_text ELSE None,
                  azure_processing_time_ms |->
                        Some(azure_result[1].processing_time_ms),
                  azure_error |-> azure_result[1].error_message]
            ELSE << >>
        gemini ==
            IF gemini_result # Nothing
            THEN [gemini_json |-> IF gemini_result[1].success
                                  THEN Some(gemini_result[1].extracted_json)
                                  ELSE Nothing,
                  gemini_processing_time_ms |->
                        Some(gemini_result[1].processing_time_ms),
                  gemini_error |-> gemini_result[1].error_message]
            ELSE << >>
        score ==
            IF c.match_score # Nothing
            THEN [match_score |-> c.match_score,
                  discrepancies |-> Some(c.discrepancies)]
            ELSE << >>
        validated ==
            IF Truthy(c.validated_output)
            THEN [validated_output |-> Some(c.validated_output),
                  validation_source |-> c.validation_source]
            ELSE << >>
    IN  base @@ azure @@ gemini @@ score @@ validated

\* The counters incremented for a status ("Update stats").
StatusCounters(status) ==
    CASE status = "auto_validated" -> [auto_validated |-> 1, processed |-> 1]
      [] status = "needs_review" -> [needs_review |-> 1, processed |-> 1]
      [] status = "error" -> [errors |-> 1, processed |-> 1]

\* The handler "except Exception as e" of process_single: write status ERROR
\* and the error text, then increment the counters; an exception of either
\* call is logged and dropped.  hu and hi tell whether update_sample and
\* increment_counters raise.
Handler(S, st, sample_id, error_msg, hu, hi) ==
    LET out(S2, st2, h, n) ==
            [samples |-> S2, stats |-> st2, handler |-> h, used |-> n,
             update_data |-> Nothing, error_msg |-> error_msg,
             result |-> ProcessingResult(FALSE, "error", Nothing, error_msg)]
    IN  IF UpdateRaises(S, sample_id) THEN out(S, st, "update raised", 0)
        ELSE IF hu THEN out(S, st, "update raised", 1)
        ELSE LET S2 == update_sample(S, sample_id,
                            [status |-> "error", datalab_error |-> error_msg])
             IN  IF hi THEN out(S2, st, "counters raised", 1)
                 ELSE out(S2,
                          increment_counters(st, [errors |-> 1,
                                                  processed |-> 1]),
                          "done", 0)

\* Step 7 of process_single, from the final update to the return, for the
\* classification c of step 6.  fu and fi tell whether the final
\* update_sample and increment_counters raise; hu and hi are the same for
\* the handler.
Persist(S, st, sample_id, c, datalab_result, azure_result, gemini_result, fu, fi, hu, hi) ==
    LET ud == UpdateData(c, datalab_result, azure_result, gemini_result)
        caught(S2, st2, written, n) ==
            LET h == Handler(S2, st2, sample_id, StoreFault, hu, hi)
            IN  [h EXCEPT !.update_data = written, !.used = h.used + n]
    IN  IF UpdateRaises(S, sample_id) THEN caught(S, st, Nothing, 0)
        ELSE IF fu THEN caught(S, st, Nothing, 1)
        ELSE LET S2 == update_sample(S, sample_id, ud)
             IN  IF fi THEN caught(S2, st, Some(ud), 1)
                 ELSE [samples |-> S2,
                       stats |-> increment_counters(st,
                                        StatusCounters(c.status)),
                       handler |-> "none", used |-> 0,
                       update_data |-> Some(ud), error_msg |-> None,
                       result |-> ProcessingResult(TRUE, c.status,
                                        c.match_score, None)]


\* The exception of process_single for a missing row.
NotFound == "Sample not found"

\* The task i of run r ends: the outcome of Persist or Handler is stored,
\* the result returned and the semaphore slot released.
TaskEnds(r, i, t, out, slots) ==
    /\ out.used <= faults
    /\ samples' = out.samples
    /\ stats' = out.stats
    /\ faults' = faults - out.used
    /\ semaphore' = [semaphore EXCEPT ![r] = slots]
    /\ tasks' = [tasks EXCEPT ![r][i] =
                    [t EXCEPT !.pc = "done",
                              !.result = Some(out.result),
                              !.update_data = out.update_data,
                              !.error_msg = out.error_msg,
                              !.handler = out.handler]]
    /\ UNCHANGED << _is_processing, runs, remote, requests >>
    /\ UNCHANGED << last_op, adapter_vars, comparison_vars >>

\* Steps 6 and 7 of the task i of run r, then its end: the classification
\* is computed once and handed to the final update.
ClassifyAndPersist(r, i, t, datalab_result, azure_result, gemini_result, fu, fi, hu, hi) ==
    \E c \in { Classify(datalab_result, gemini_result) } :
        TaskEnds(r, i, t,
                 Persist(samples, stats, t.sample_id, c, datalab_result,
                         azure_result, gemini_result, fu, fi, hu, hi),
                 semaphore[r] + 1)

\* Mutant of SlotFree: the semaphore never blocks.
SlotFreeAlways(r) == TRUE

\* "async with self.semaphore" enters when a slot is free.
SlotFree(r) == semaphore[r] > 0

\* process_single up to the first await: take a semaphore slot, load the
\* sample, mark it PROCESSING, fetch the bytes and call datalab.extract.
\* In a run over sample_ids the calls follow each other.
TaskStart(r, i) ==
    /\ runs[r].pc = "running"
    /\ i \in 1..Len(tasks[r])
    /\ tasks[r][i].pc = "new"
    /\ runs[r].sample_ids # Nothing =>
            \A j \in 1..(i - 1) : tasks[r][j].pc = "done"
    /\ SlotFree(r)
    /\ \E fg \in BOOLEAN, fm \in BOOLEAN, hu \in BOOLEAN, hi \in BOOLEAN,
          pdf_bytes \in get_pdf_bytes :
        LET t == tasks[r][i]
            sample_id == t.sample_id
            n == IF fg \/ fm THEN 1 ELSE 0
            caught(S, msg) ==
                LET h == Handler(S, stats, sample_id, msg, hu, hi)
                IN  [h EXCEPT !.used = h.used + n]
            S2 == update_sample(samples, sample_id, [status |-> "processing"])
        IN  IF fg
            THEN TaskEnds(r, i, t, caught(samples, StoreFault), semaphore[r])
            ELSE IF get_sample(samples, sample_id) = Nothing
            THEN /\ ~fm
                 /\ TaskEnds(r, i, t, caught(samples, NotFound), semaphore[r])
            ELSE IF fm
            THEN TaskEnds(r, i, t, caught(samples, StoreFault), semaphore[r])
            ELSE IF \E o \in datalab_extract(pdf_bytes) : o.raised
            THEN \E o \in datalab_extract(pdf_bytes) :
                    /\ o.raised
                    /\ TaskEnds(r, i, [t EXCEPT !.pdf_bytes = pdf_bytes,
                                                 !.marked = TRUE],
                                caught(S2, o.exc), semaphore[r])
            ELSE /\ ~hu /\ ~hi
                 /\ samples' = S2
                 /\ semaphore' = [semaphore EXCEPT ![r] = @ - 1]
                 /\ tasks' = [tasks EXCEPT ![r][i] =
                                [t EXCEPT !.pc = "datalab",
                                          !.marked = TRUE,
                                          !.pdf_bytes = pdf_bytes]]
                 /\ UNCHANGED << last_op, adapter_vars, comparison_vars >>
                 /\ UNCHANGED << stats, _is_processing, runs, remote,
                                 requests, faults >>

\* datalab.extract returns; azure_ocr.extract is called.
DatalabReturns(r, i) ==
    /\ i \in 1..Len(tasks[r])
    /\ tasks[r][i].pc = "datalab"
    /\ \E o \in datalab_extract(tasks[r][i].pdf_bytes) :
        /\ ~o.raised
        /\ tasks' = [tasks EXCEPT ![r][i] =
                        [@ EXCEPT !.pc = "azure",
                                  !.datalab_result = Some(o.result)]]
    /\ UNCHANGED << samples, stats, _is_processing, runs, semaphore,
                    remote, requests, faults >>
    /\ UNCHANGED << last_op, adapter_vars, comparison_vars >>

\* azure_ocr.extract returns or raises.  On success gemini.extract is
\* called; otherwise the task goes on to steps 6 and 7 without path B.
AzureReturns(r, i) ==
    /\ i \in 1..Len(tasks[r])
    /\ tasks[r][i].pc = "azure"
    /\ \E o \in azure_extract(tasks[r][i].pdf_bytes),
          fu \in BOOLEAN, fi \in BOOLEAN, hu \in BOOLEAN, hi \in BOOLEAN :
        LET t == tasks[r][i]
            azure_result == IF o.raised THEN Nothing ELSE Some(o.result)
            t2 == [t EXCEPT !.azure_result = azure_result]
        IN  IF ~o.raised /\ o.result.success
            THEN /\ ~fu /\ ~fi /\ ~hu /\ ~hi
                 /\ tasks' = [tasks EXCEPT ![r][i] =
                                [t2 EXCEPT !.pc = "gemini"]]
                 /\ UNCHANGED << samples, stats, _is_processing, runs,
                                 semaphore, remote, requests, faults >>
                 /\ UNCHANGED << last_op, adapter_vars, comparison_vars >>
            ELSE ClassifyAndPersist(r, i, t2, t.datalab_result[1],
                                    azure_result, Nothing, fu, fi, hu, hi)

\* gemini.extract returns or raises; steps 6 and 7 follow.
GeminiReturns(r, i) ==
    /\ i \in 1..Len(tasks[r])
    /\ tasks[r][i].pc = "gemini"
    /\ \E o \in gemini_extract(tasks[r][i].azure_result[1].raw_text),
          fu \in BOOLEAN, fi \in BOOLEAN, hu \in BOOLEAN, hi \in BOOLEAN :
        LET t == tasks[r][i]
            gemini_result == IF o.raised THEN Nothing ELSE Some(o.result)
            t2 == [t EXCEPT !.gemini_result = gemini_result]
        IN  ClassifyAndPersist(r, i, t2, t.datalab_result[1],
                               t.azure_result, gemini_result,
                               fu, fi, hu, hi)


(***************************************************************************)
(* processing/pipeline.py: process_all_pending, and api/routes.py          *)
(***************************************************************************)
\* process_all_pending reads at most this many pending samples.
PendingLimit == 1000

\* start_processing counts at most this many pending samples.
CountLimit == 10000

\* The bodies of POST /process: no sample_ids, or a list of ids.
RequestBodies == { Nothing, Some(<< UnknownId, 1 >>) }

NoRun ==
    [resp |-> 0,            \* HTTP status of the answer to POST /process
     pc |-> "none",         \* none, queued, running, ended
     sample_ids |-> Nothing,
     summary |-> Nothing,   \* the ProcessingSummary returned
     error |-> None]        \* the exception caught by _run_batch_processing

ProcessingSummary(total_processed, successful, failed, auto_validated, needs_review) ==
    [total_processed |-> total_processed, successful |-> successful,
     failed |-> failed, auto_validated |-> auto_validated,
     needs_review |-> needs_review]

\* "Analyze results": the summary of the results returned by gather.
Summarize(total_count, ts) ==
    LET results == { i \in 1..Len(ts) : ts[i].result # Nothing }
        ok(i) == ts[i].result[1].success
        st(i) == ts[i].result[1].status
    IN  ProcessingSummary(
            total_count,
            Cardinality({ i \in results : ok(i) }),
            Cardinality({ i \in results : ~ok(i) }),
            Cardinality({ i \in results : ok(i) /\ st(i) = "auto_validated" }),
            Cardinality({ i \in results : ok(i) /\ st(i) = "needs_review" }))

\* @router.post("/process"): answer 409 while the flag is set, 400 when
\* nothing is pending, otherwise queue the background task.
start_processing(body) ==
    /\ requests > 0
    /\ \E x \in RunIds : runs[x].resp = 0
    /\ requests' = requests - 1
    /\ \E fg \in BOOLEAN :
        LET r == CHOOSE x \in RunIds :
                    /\ runs[x].resp = 0
                    /\ \A y \in RunIds : runs[y].resp = 0 => x <= y
            pending_count ==
                IF body # Nothing /\ body[1] # << >>
                THEN Len(body[1])
                ELSE Len(get_samples(samples, "pending", CountLimit))
            answer(code) == runs' = [runs EXCEPT ![r].resp = code]
        IN  IF _is_processing
            THEN /\ ~fg
                 /\ answer(409)
                 /\ faults' = faults
            ELSE IF fg /\ ~(body # Nothing /\ body[1] # << >>)
            THEN /\ faults > 0
                 /\ faults' = faults - 1
                 /\ answer(500)
            ELSE IF pending_count = 0
            THEN /\ ~fg
                 /\ answer(400)
                 /\ faults' = faults
            ELSE /\ ~fg
                 /\ faults' = faults
                 /\ runs' = [runs EXCEPT ![r] =
                                [@ EXCEPT !.resp = 200, !.pc = "queued",
                                          !.sample_ids = body]]
    /\ UNCHANGED << samples, stats, _is_processing, tasks, semaphore,
                    remote >>
    /\ UNCHANGED << last_op, adapter_vars, comparison_vars >>

\* The run r ends inside _run_batch_processing: the summary or the exception
\* is kept and "finally" clears the module-level flag.
RunEnds(r, st, summary, error, used) ==
    /\ used <= faults
    /\ faults' = faults - used
    /\ stats' = st
    /\ _is_processing' = FALSE
    /\ runs' = [runs EXCEPT ![r] =
                    [@ EXCEPT !.pc = "ended", !.summary = summary,
                              !.error = error]]

\* The "finally" of process_all_pending clears the persisted flag; f3 tells
\* whether set_processing_flag raises, and the exception replaces the result.
ClearFlagAndEnd(r, st, summary, error, used, f3) ==
    IF f3
    THEN RunEnds(r, st, Nothing, StoreFault, used + 1)
    ELSE RunEnds(r, set_processing_flag(st, FALSE), summary, error, used)

\* The background task _run_batch_processing starts: it sets the flag and
\* creates the pipeline.  With sample_ids it processes them one after the
\* other; otherwise process_all_pending sets the persisted flag, reads the
\* pending samples once and creates one task per sample.
RunBegins(r) ==
    /\ runs[r].pc = "queued"
    /\ UNCHANGED << samples, remote, requests >>
    /\ UNCHANGED << last_op, adapter_vars, comparison_vars >>
    /\ IF runs[r].sample_ids # Nothing /\ runs[r].sample_ids[1] # << >>
       THEN /\ _is_processing' = TRUE
            /\ runs' = [runs EXCEPT ![r].pc = "running"]
            /\ tasks' = [tasks EXCEPT ![r] =
                            [i \in 1..Len(runs[r].sample_ids[1]) |->
                                NewTask(runs[r].sample_ids[1][i])]]
            /\ semaphore' = [semaphore EXCEPT ![r] = MAX_PARALLEL_PDFS]
            /\ UNCHANGED << stats, faults >>
       ELSE \E f1 \in BOOLEAN, f2 \in BOOLEAN, f3 \in BOOLEAN :
            LET st1 == set_processing_flag(stats, TRUE)
                pending_samples == get_samples(samples, "pending",
                                               PendingLimit)
                total_count == Len(pending_samples)
            IN  IF f1
                THEN /\ ~f2 /\ ~f3
                     /\ RunEnds(r, stats, Nothing, StoreFault, 1)
                     /\ UNCHANGED << tasks, semaphore >>
                ELSE IF f2
                THEN /\ ClearFlagAndEnd(r, st1, Nothing, StoreFault, 1, f3)
                     /\ UNCHANGED << tasks, semaphore >>
                ELSE IF total_count = 0
                THEN /\ ClearFlagAndEnd(r, st1,
                            Some(ProcessingSummary(0, 0, 0, 0, 0)), None,
                            0, f3)
                     /\ UNCHANGED << tasks, semaphore >>
                ELSE /\ ~f3
                     /\ _is_processing' = TRUE
                     /\ stats' = st1
                     /\ runs' = [runs EXCEPT ![r].pc = "running"]
                     /\ tasks' = [tasks EXCEPT ![r] =
                                    [i \in 1..total_count |->
                                        NewTask(pending_samples[i])]]
                     /\ semaphore' = [semaphore EXCEPT ![r] =
                                        MAX_PARALLEL_PDFS]
                     /\ UNCHANGED faults

\* Mutant of AllReturned: the first failed task ends the wait.
FirstFailureReturned(r) ==
    \/ \A i \in 1..Len(tasks[r]) : tasks[r][i].pc = "done"
    \/ \E i \in 1..Len(tasks[r]) :
            /\ tasks[r][i].pc = "done"
            /\ ~tasks[r][i].result[1].success

\* asyncio.gather(*tasks, return_exceptions=True), and the loop over
\* sample_ids: every process_single call of the run has returned.
AllReturned(r) == \A i \in 1..Len(tasks[r]) : tasks[r][i].pc = "done"

\* Every process_single call of the run has returned: the loop over
\* sample_ids is over, or gather returns and process_all_pending builds the
\* summary and clears the persisted flag.
RunReturns(r) ==
    /\ runs[r].pc = "running"
    /\ AllReturned(r)
    /\ UNCHANGED << samples, remote, requests, tasks, semaphore >>
    /\ UNCHANGED << last_op, adapter_vars, comparison_vars >>
    /\ IF runs[r].sample_ids # Nothing /\ runs[r].sample_ids[1] # << >>
       THEN RunEnds(r, stats, Nothing, None, 0)
       ELSE \E f3 \in BOOLEAN :
                ClearFlagAndEnd(r, stats,
                    Some(Summarize(Len(tasks[r]), tasks[r])), None, 0, f3)

(***************************************************************************)
(* api/routes.py: PATCH /samples/{sample_id}, and reset_samples            *)
(***************************************************************************)
\* A ValidationRequest: every field is optional, status is any SampleStatus.
ValidationRequest(status, validated_output, validation_source, validator_notes) ==
    [status |-> status, validated_output |-> validated_output,
     validation_source |-> validation_source,
     validator_notes |-> validator_notes]

\* The bodies of PATCH: a correction, a rejection, a bare status and an
\* empty body.
ValidationRequests ==
    { ValidationRequest("manually_validated", Some(DocGeminiDiff), "manual",
                        "note"),
      ValidationRequest("rejected", Nothing, None, None),
      ValidationRequest("pending", Nothing, None, None),
      ValidationRequest(None, Nothing, None, None) }

\* "Prepare update fields": the fields of the request that are set.
UpdateFields(request) ==
    (IF request.status # None
     THEN [status |-> request.status] ELSE << >>)
    @@ (IF request.validated_output # Nothing
            /\ Truthy(request.validated_output[1])
        THEN [validated_output |-> request.validated_output]
        ELSE << >>)
    @@ (IF request.validation_source # None
        THEN [validation_source |-> request.validation_source]
        ELSE << >>)
    @@ (IF request.validator_notes # None
        THEN [validator_notes |-> request.validator_notes]
        ELSE << >>)

\* @router.patch("/samples/{sample_id}"): 404 for an unknown id, 400 when
\* no field is set, 500 when the repository raises, otherwise the fields
\* are written.
validate_sample(sample_id, request) ==
    /\ requests > 0
    /\ requests' = requests - 1
    /\ \E f \in BOOLEAN :
        LET update_fields == UpdateFields(request)
            answer(code) ==
                last_op' = [op |-> "validate_sample", sample_id |-> sample_id,
                            request |-> request, resp |-> code]
        IN  IF f
            THEN /\ faults > 0
                 /\ faults' = faults - 1
                 /\ answer(500)
                 /\ samples' = samples
            ELSE /\ faults' = faults
                 /\ IF get_sample(samples, sample_id) = Nothing
                    THEN answer(404) /\ samples' = samples
                    ELSE IF DOMAIN update_fields = {}
                    THEN answer(400) /\ samples' = samples
                    ELSE /\ answer(200)
                         /\ samples' = update_sample(samples, sample_id,
                                                     update_fields)
    /\ UNCHANGED << stats, _is_processing, runs, tasks, semaphore, remote >>
    /\ UNCHANGED << adapter_vars, comparison_vars >>

\* "Fields to clear (set to None/pending)"
reset_data ==
    [status |-> "pending",
     datalab_raw_ocr |-> None, datalab_json |-> Nothing,
     datalab_processing_time_ms |-> Nothing, datalab_error |-> None,
     azure_raw_ocr |-> None, azure_processing_time_ms |-> Nothing,
     azure_error |-> None,
     gemini_json |-> Nothing, gemini_processing_time_ms |-> Nothing,
     gemini_error |-> None,
     match_score |-> Nothing, discrepancies |-> Nothing,
     validated_output |-> Nothing, validation_source |-> None,
     validator_notes |-> None, dataset_split |-> None]

\* The arguments of reset_samples: None, or a list of ids.
ResetArguments ==
    { Nothing, Some(<< >>), Some(<< 1 >>), Some(<< UnknownId >>) }

\* The rows that the update of reset_samples matches: those of the ids
\* given, or every row when sample_ids is None or empty.
ResetMatches(S, sample_ids) ==
    IF sample_ids # Nothing /\ sample_ids[1] # << >>
    THEN { id \in DOMAIN S : \E n \in 1..Len(sample_ids[1]) :
                                    sample_ids[1][n] = id }
    ELSE DOMAIN S

\* SampleRepository.reset_samples(sample_ids)
reset_samples(sample_ids) ==
    /\ requests > 0
    /\ requests' = requests - 1
    /\ last_op' = [op |-> "reset_samples", sample_ids |-> sample_ids]
    /\ \E f \in BOOLEAN :
        IF f
        THEN /\ faults > 0
             /\ faults' = faults - 1
             /\ samples' = samples
        ELSE /\ faults' = faults
             /\ samples' = [id \in DOMAIN samples |->
                                IF id \in ResetMatches(samples, sample_ids)
                                THEN Merge(samples[id], reset_data)
                                ELSE samples[id]]
    /\ UNCHANGED << stats, _is_processing, runs, tasks, semaphore, remote >>
    /\ UNCHANGED << adapter_vars, comparison_vars >>

(***************************************************************************)
(* extractors/: the rate limiter and the requests of one adapter instance  *)
(***************************************************************************)
Adapters == { "datalab", "azure", "gemini" }

\* self._min_interval of each adapter, in seconds.
DatalabMinInterval == 6
AzureMinInterval == 1
GeminiMinInterval == 6

\* self.poll_interval of the two submit-then-poll adapters as the pipeline
\* constructs them, in seconds.
DatalabPollInterval == 3
AzurePollInterval == 2

\* AzureOCRExtractor: retry_delay, in seconds.
AzureRetryDelay == 5

\* DatalabExtractor._poll_for_completion: the sleeps after a poll answered
\* 429 and after a poll that failed, in seconds.
DatalabPollRateLimitDelay == 10
DatalabPollErrorDelay == 5

\* GeminiExtractor(max_retries=2)
GeminiMaxRetries == 2

\* The poll budget self.max_polls of the adapters of the model.
MaxPolls == 2

\* self.max_retries of the Azure adapter of the model.
MaxRetries == 1

\* time.time() when the first extract is called, _last_request_time being
\* 0.0 since the construction of the adapter.
StartTime == 6

\* The time span observed after StartTime, in seconds.
Horizon == 12

\* time.time() when the tasks that share an adapter instance call extract.
SharedStartTime == 11

\* Tasks that share the adapter instance, and extract calls of a caller
\* that makes them one after the other.
MaxCallers == 2
MaxExtracts == 2

_min_interval ==
    CASE kind = "datalab" -> DatalabMinInterval
      [] kind = "azure" -> AzureMinInterval
      [] kind = "gemini" -> GeminiMinInterval

poll_interval ==
    CASE kind = "datalab" -> DatalabPollInterval
      [] kind = "azure" -> AzurePollInterval

\* The error messages of the failure results, without their details.
RateLimitExceeded == "Rate limit exceeded"
PollTimeout == "Timeout after max_polls polls"
PollingFailed == "Polling failed"
NetworkError == "Network error"
JobFailed == "processing failed"
HttpError == "HTTP error"
GenerateTimeout == "Timeout after timeout s"
InvalidJSON == "Invalid JSON after max_retries retries"
OtherError == "error"

\* Mutant of Failure: the failure result carries no message.
FailureWithoutText(error_message) == [success |-> FALSE, error_message |-> None]

\* What extract returns: success, or a failure result with its message.
Success == [success |-> TRUE, error_message |-> None]
Failure(error_message) == [success |-> FALSE, error_message |-> error_message]

\* A caller of extract.  pc is "idle" outside extract, "rate_limit" in the
\* sleep of _rate_limit, "request" while the request is awaited and "sleep"
\* in the sleep before a poll or a retry.
NewCaller(extracts) ==
    [pc |-> "idle",
     wake |-> 0,            \* when the sleep is over
     request |-> None,      \* "submit", "poll" or "generate"
     attempt |-> 0,         \* retry_count, or the poll or model call
     answer |-> None,       \* the last answer received
     result |-> Nothing,    \* what the last extract returned
     extracts |-> extracts] \* extract calls still to make

\* elapsed = current_time - self._last_request_time
Elapsed == clock - _last_request_time

\* The caller c, about to be in the state rec, starts its request: the
\* request goes out at the present time.
Send(c, rec) ==
    /\ callers' = [callers EXCEPT ![c] = [rec EXCEPT !.pc = "request",
                                                  !.wake = 0]]
    /\ outbound' = Append(outbound, [time |-> clock, caller |-> c,
                                     request |-> rec.request])

\* await self._rate_limit() followed by the request: when the interval has
\* not elapsed the caller sleeps for the rest of it; otherwise the time of
\* the request is recorded and the request goes out.
_rate_limit(c, rec) ==
    IF Elapsed < _min_interval
    THEN /\ callers' = [callers EXCEPT ![c] =
                [rec EXCEPT !.pc = "rate_limit",
                            !.wake = clock + (_min_interval - Elapsed)]]
         /\ UNCHANGED << _last_request_time, outbound >>
    ELSE /\ _last_request_time' = clock
         /\ Send(c, rec)

\* extract returns result to its caller.
Return(c, rec, result) ==
    /\ callers' = [callers EXCEPT ![c] =
                    [rec EXCEPT !.pc = "idle", !.wake = 0,
                                !.request = None, !.attempt = 0,
                                !.result = Some(result)]]
    /\ UNCHANGED << _last_request_time, outbound >>

\* The caller c sleeps for delay seconds and goes on as rec.
Sleep(c, rec, delay) ==
    /\ callers' = [callers EXCEPT ![c] =
                    [rec EXCEPT !.pc = "sleep", !.wake = clock + delay]]
    /\ UNCHANGED << _last_request_time, outbound >>

\* One second passes.
Tick ==
    /\ clock < StartTime + Horizon
    /\ clock' = clock + 1
    /\ UNCHANGED << kind, _last_request_time, callers, outbound >>
    /\ UNCHANGED << pipeline_vars, comparison_vars >>

\* extract is called: the first request of the adapter is the submission
\* or, for Gemini, the first model call.
Extract(c) ==
    /\ callers[c].pc = "idle"
    /\ callers[c].extracts > 0
    /\ _rate_limit(c, [callers[c] EXCEPT
            !.extracts = @ - 1,
            !.answer = None,
            !.result = Nothing,
            !.request = IF kind = "gemini" THEN "generate" ELSE "submit",
            !.attempt = IF kind = "gemini" THEN 1 ELSE 0])
    /\ UNCHANGED << clock, kind >>
    /\ UNCHANGED << pipeline_vars, comparison_vars >>

\* The sleep of _rate_limit is over: the time of the request is recorded
\* and the request goes out.
RateLimitWakes(c) ==
    /\ callers[c].pc = "rate_limit"
    /\ clock >= callers[c].wake
    /\ _last_request_time' = clock
    /\ Send(c, callers[c])
    /\ UNCHANGED << clock, kind >>
    /\ UNCHANGED << pipeline_vars, comparison_vars >>

\* The submission is answered.  Accepted: the poll loop begins with its
\* sleep.  HTTP 429: Datalab's _submit_pdf raises DatalabRateLimitError and
\* extract returns the failure; Azure's extract adds one to retry_count and
\* submits again after retry_delay * retry_count while retry_count does not
\* exceed max_retries.  Another HTTP error: extract returns a failure.
SubmitAnswered(c) ==
    /\ callers[c].pc = "request"
    /\ callers[c].request = "submit"
    /\ \E answer \in remote.submit :
        LET rec == [callers[c] EXCEPT !.answer = answer]
            retry_count == callers[c].attempt + 1
        IN  CASE answer = "accepted" ->
                    Sleep(c, [rec EXCEPT !.request = "poll", !.attempt = 1],
                          poll_interval)
              [] answer = "429" ->
                    IF kind = "azure" /\ retry_count <= MaxRetries
                    THEN Sleep(c, [rec EXCEPT !.attempt = retry_count],
                               AzureRetryDelay * retry_count)
                    ELSE Return(c, rec, Failure(RateLimitExceeded))
              [] answer = "http error" ->
                    Return(c, rec, Failure(HttpError))
    /\ UNCHANGED << clock, kind >>
    /\ UNCHANGED << pipeline_vars, comparison_vars >>

\* A sleep of the poll loop is over.  Datalab's loop awaits _rate_limit and
\* then sends the GET, or raises DatalabTimeoutError when the sleep followed
\* the last attempt; Azure's loop sends the GET.
PollSleepEnds(c) ==
    /\ callers[c].pc = "sleep"
    /\ callers[c].request = "poll"
    /\ clock >= callers[c].wake
    /\ IF callers[c].attempt > MaxPolls
       THEN Return(c, callers[c], Failure(PollTimeout))
       ELSE IF kind = "datalab"
       THEN _rate_limit(c, callers[c])
       ELSE /\ Send(c, callers[c])
            /\ UNCHANGED _last_request_time
    /\ UNCHANGED << clock, kind >>
    /\ UNCHANGED << pipeline_vars, comparison_vars >>

\* DatalabExtractor._poll_for_completion after the answer to the poll
\* rec.attempt.
DatalabPollAnswered(c, rec, status) ==
    LET last == rec.attempt >= MaxPolls
        next == [rec EXCEPT !.attempt = @ + 1]
    IN  CASE status = "complete" -> Return(c, rec, Success)
          [] status = "failed" -> Return(c, rec, Failure(JobFailed))
          [] status \in { "processing", "unknown" } ->
                IF last THEN Return(c, rec, Failure(PollTimeout))
                ELSE Sleep(c, next, poll_interval)
          [] status = "429" ->
                IF last THEN Sleep(c, next, DatalabPollRateLimitDelay)
                ELSE Sleep(c, next, DatalabPollRateLimitDelay + poll_interval)
          [] status = "http error" ->
                IF last THEN Return(c, rec, Failure(PollingFailed))
                ELSE Sleep(c, next, DatalabPollErrorDelay + poll_interval)
          [] status = "network error" ->
                IF last THEN Return(c, rec, Failure(NetworkError))
                ELSE Sleep(c, next, DatalabPollErrorDelay + poll_interval)

\* Mutant of AzurePollAnswered: a status that is not known ends the polling.
AzurePollUnknownEnds(c, rec, status) ==
    CASE status = "complete" -> Return(c, rec, Success)
      [] status \in { "failed", "unknown" } ->
            Return(c, rec, Failure(JobFailed))
      [] OTHER ->
            IF rec.attempt >= MaxPolls
            THEN Return(c, rec, Failure(PollTimeout))
            ELSE Sleep(c, [rec EXCEPT !.attempt = @ + 1], poll_interval)

\* AzureOCRExtractor._poll_for_result after the answer to the poll
\* rec.attempt, and what extract makes of its result.
AzurePollAnswered(c, rec, status) ==
    CASE status = "complete" -> Return(c, rec, Success)
      [] status = "failed" -> Return(c, rec, Failure(JobFailed))
      [] OTHER ->
            IF rec.attempt >= MaxPolls
            THEN Return(c, rec, Failure(PollTimeout))
            ELSE Sleep(c, [rec EXCEPT !.attempt = @ + 1], poll_interval)

\* A poll is answered.
PollAnswered(c) ==
    /\ callers[c].pc = "request"
    /\ callers[c].request = "poll"
    /\ \E status \in remote.poll :
        LET rec == [callers[c] EXCEPT !.answer = status]
        IN  IF kind = "datalab"
            THEN DatalabPollAnswered(c, rec, status)
            ELSE AzurePollAnswered(c, rec, status)
    /\ UNCHANGED << clock, kind >>
    /\ UNCHANGED << pipeline_vars, comparison_vars >>

\* Mutant of ParseRetry: an unparsable text is retried whatever the attempt.
ParseRetryUnbounded(answer, attempt) == answer = "not json"

\* Mutant of ParseRetry: any failed call is repeated.
ParseRetryAnyFailure(answer, attempt) ==
    answer # "json" /\ attempt <= GeminiMaxRetries

\* GeminiExtractor.extract repeats the call: the text did not parse as JSON
\* and retries are left.
ParseRetry(answer, attempt) ==
    answer = "not json" /\ attempt <= GeminiMaxRetries

\* The model call is over: extract returns, or the text does not parse and
\* the call is repeated after asyncio.sleep(2 * attempt) while retries are
\* left.
GenerateAnswered(c) ==
    /\ callers[c].pc = "request"
    /\ callers[c].request = "generate"
    /\ \E answer \in remote.generate :
        LET rec == [callers[c] EXCEPT !.answer = answer]
        IN  IF ParseRetry(answer, rec.attempt)
            THEN Sleep(c, [rec EXCEPT !.attempt = @ + 1], 2 * rec.attempt)
            ELSE Return(c, rec,
                    CASE answer = "json" -> Success
                      [] answer = "not json" -> Failure(InvalidJSON)
                      [] answer = "timeout" -> Failure(GenerateTimeout)
                      [] answer = "quota" -> Failure(RateLimitExceeded)
                      [] OTHER -> Failure(OtherError))
    /\ UNCHANGED << clock, kind >>
    /\ UNCHANGED << pipeline_vars, comparison_vars >>

\* The sleep before the next submission or model call is over: _rate_limit,
\* then the request.
RetrySleepEnds(c) ==
    /\ callers[c].pc = "sleep"
    /\ callers[c].request \in { "submit", "generate" }
    /\ clock >= callers[c].wake
    /\ _rate_limit(c, callers[c])
    /\ UNCHANGED << clock, kind >>
    /\ UNCHANGED << pipeline_vars, comparison_vars >>

\* asyncio.sleep returns when its delay is over, however late that is: time
\* goes on beyond the horizon for as long as a caller sleeps.
SleepPasses ==
    /\ clock >= StartTime + Horizon
    /\ \E c \in DOMAIN callers :
            /\ callers[c].pc \in { "sleep", "rate_limit" }
            /\ callers[c].wake > clock
    /\ clock' = clock + 1
    /\ UNCHANGED << kind, _last_request_time, callers, outbound >>
    /\ UNCHANGED << pipeline_vars, comparison_vars >>

(***************************************************************************)
(* The comparison functions called directly                                *)
(***************************************************************************)
\* The longest string of the values enumerated.
MaxLen == 3

\* Characters of the strings enumerated: a capital letter, a space and a
\* punctuation mark that normalize drops at the end.
Alphabet == { "A", " ", "." }

\* The strings over Alphabet of at most n characters.
Strings(n) == UNION { [1..k -> Alphabet] : k \in 0..n }

\* Strings that reach the fuzzy path: LongA and LongB are 21 and 18
\* characters long; LongC and LongD are 21 characters long and differ in
\* the last one.
LongA ==
    << "a", "a", "b", "a", "b", "a", "a", "a", "b", "b", "b", "a", "b",
       "b", "a", "a", "b", "a", "a", "b", "a" >>

LongB ==
    << "a", "a", "b", "a", "a", "a", "a", "b", "b", "b", "b", "b", "a",
       "a", "b", "a", "b", "a" >>

LongC ==
    << "a", "a", "a", "a", "a", "a", "a", "a", "a", "a", "a", "a", "a",
       "a", "a", "a", "a", "a", "a", "a", "a" >>

LongD ==
    << "a", "a", "a", "a", "a", "a", "a", "a", "a", "a", "a", "a", "a",
       "a", "a", "a", "a", "a", "a", "a", "b" >>

\* The values given to normalize and values_match: None, numbers, the
\* strings enumerated, a small letter and digits as strings, and the long
\* strings.
Values ==
    { JNull, JNum(1), JNum(12) }
    \cup { JStr(str) : str \in Strings(MaxLen) }
    \cup { JStr(<< "a" >>), JStr(<< "1" >>), JStr(<< "1", "2", "." >>) }
    \cup { JStr(str) : str \in { LongA, LongB, LongC, LongD } }

\* The values of the fields of the outputs given to calculate_match_score.
DocValues ==
    { JNull, JStr(<< "a" >>), JStr(<< "A", " " >>), JStr(<< "a", "a" >>),
      JStr(LongC), JStr(LongD) }

\* The output that has the value v under the first n keys and no other key.
Doc(v, n) == [field \in { DDT_FIELDS[i] : i \in 1..n } |-> v]

\* A comparison function returns value for the arguments args.
Returns(fn, args, value) ==
    /\ returned' = [fn |-> fn, args |-> args, value |-> value]
    /\ UNCHANGED << val1, val2, datalab_output, gemini_output, result_data >>
    /\ UNCHANGED << pipeline_vars, adapter_vars >>

\* normalize(value) is called on an input, or on what normalize returned.
CallNormalize ==
    \/ /\ returned.fn = "none"
       /\ \E value \in { val1, val2 } :
            Returns("normalize", << value >>, normalize(value))
    \/ /\ returned.fn = "normalize"
       /\ Returns("normalize", << returned.value >>,
                  normalize(returned.value))

\* values_match(val1, val2) is called.
CallValuesMatch ==
    /\ returned.fn = "none"
    /\ Returns("values_match", << val1, val2 >>, values_match(val1, val2))

\* calculate_match_score(datalab_output, gemini_output) is called.
CallCalculateMatchScore ==
    /\ returned.fn = "none"
    /\ Returns("calculate_match_score", << datalab_output, gemini_output >>,
               calculate_match_score(datalab_output, gemini_output))

\* Step 6 of process_single is run on two successful results that carry the
\* two outputs.
CallClassify ==
    /\ returned.fn = "none"
    /\ Returns("process_single", << datalab_output, gemini_output >>,
               Classify(DatalabResult(TRUE, "markdown", datalab_output, None),
                        Some(GeminiResult(TRUE, gemini_output, None))))

NextComparison ==
    \/ CallNormalize
    \/ CallValuesMatch
    \/ CallCalculateMatchScore
    \/ CallClassify

(***************************************************************************)
(* extractors/datalab.py: step 3 of extract, "Parse results"               *)
(***************************************************************************)
\* Bound: the length, in tokens, of the text of extraction_schema_json.
MaxTokens == 4

\* The tokens of the text: the brackets, the colon, the string "a" and null.
JsonTokens == { "{", "}", "[", "]", ":", "\"a\"", "null" }

\* The decoder of json.loads: the value that starts at token i of toks and
\* the position after it, or a failure.  Objects and arrays have at most
\* one member, there being no comma among the tokens.
RECURSIVE ParseValue(_, _)
ParseValue(toks, i) ==
    LET tok(j) == IF j \in 1..Len(toks) THEN toks[j] ELSE "end"
        fail == [ok |-> FALSE]
        done(n, v) == [ok |-> TRUE, next |-> n, val |-> v]
    IN  CASE tok(i) = "\"a\"" -> done(i + 1, JStr(<< "a" >>))
          [] tok(i) = "null" -> done(i + 1, JNull)
          [] tok(i) = "[" ->
                IF tok(i + 1) = "]"
                THEN done(i + 2, [t |-> "list", v |-> << >>])
                ELSE LET e == ParseValue(toks, i + 1)
                     IN  IF e.ok /\ tok(e.next) = "]"
                         THEN done(e.next + 1,
                                   [t |-> "list", v |-> << e.val >>])
                         ELSE fail
          [] tok(i) = "{" ->
                IF tok(i + 1) = "}"
                THEN done(i + 2, [t |-> "dict", v |-> << >>])
                ELSE IF tok(i + 1) = "\"a\"" /\ tok(i + 2) = ":"
                THEN LET e == ParseValue(toks, i + 3)
                     IN  IF e.ok /\ tok(e.next) = "}"
                         THEN done(e.next + 1,
                                   [t |-> "dict",
                                    v |-> [k \in { "a" } |-> e.val]])
                         ELSE fail
                ELSE fail
          [] OTHER -> fail

\* Mutant of json_loads: what follows the first value is ignored.
json_loads_prefix(s) ==
    LET r == ParseValue(s, 1)
    IN  IF r.ok THEN [raised |-> FALSE, value |-> r.val]
        ELSE [raised |-> TRUE]

\* json.loads(s): the value of the whole text, or JSONDecodeError.
json_loads(s) ==
    LET r == ParseValue(s, 1)
    IN  IF r.ok /\ r.next = Len(s) + 1
        THEN [raised |-> FALSE, value |-> r.val]
        ELSE [raised |-> TRUE]

\* Step 3 of extract on the answer result_data: the markdown, the parsed
\* extraction_schema_json, the log line with both lengths and the
\* DatalabResult; any exception ends in the failure result of
\* "except Exception".
ParseResults(data) ==
    LET raw_ocr == IF "markdown" \in DOMAIN data THEN data.markdown ELSE ""
        extraction_schema_json_str ==
            IF "extraction_schema_json" \in DOMAIN data
            THEN data.extraction_schema_json
            ELSE JStr(<< "{", "}" >>)
        empty == [t |-> "dict", v |-> << >>]
        failure(msg) == DatalabResult(FALSE, "", EmptyJson, msg)
        finish(extracted_json) ==
            IF raw_ocr = None \/ extracted_json = JNull
            THEN failure(TypeErrorNoLen)
            ELSE IF extracted_json.t # "dict"
            THEN failure("validation error for DatalabResult")
            ELSE DatalabResult(TRUE, raw_ocr, extracted_json.v, None)
    IN  IF extraction_schema_json_str \in { JNull, JStr(<< >>), empty }
        THEN finish(empty)
        ELSE IF extraction_schema_json_str.t # "str"
        THEN failure("the JSON object must be str, bytes or bytearray")
        ELSE LET loaded == json_loads(extraction_schema_json_str.s)
             IN  IF loaded.raised THEN finish(empty)
                 ELSE finish(loaded.value)

\* The answers with status "complete": markdown is a text, null or absent,
\* extraction_schema_json a text of at most MaxTokens tokens, null, an
\* object or absent.
ResultDatas ==
    { [k \in K |-> IF k = "markdown" THEN md ELSE x] :
        K \in SUBSET { "markdown", "extraction_schema_json" },
        md \in { "markdown", None },
        x \in { JNull, [t |-> "dict", v |-> << >>],
                [t |-> "dict", v |-> [k \in { "a" } |-> JNull]] }
              \cup { JStr(toks) :
                        toks \in UNION { [1..n -> JsonTokens] :
                                            n \in 0..MaxTokens } } }

\* extract reaches step 3 with the answer result_data.
CallParseResults ==
    /\ returned.fn = "none"
    /\ Returns("extract", << result_data >>, ParseResults(result_data))

NextParse == CallParseResults

(***************************************************************************)
(* Specifications                                                          *)
(***************************************************************************)
\* No adapter call is observed.
NoCallers ==
    /\ clock = StartTime
    /\ kind = "datalab"
    /\ _last_request_time = 0
    /\ callers = << >>
    /\ outbound = << >>

\* No comparison function is called directly.
NoComparison ==
    /\ val1 = JNull
    /\ val2 = JNull
    /\ datalab_output = EmptyJson
    /\ gemini_output = EmptyJson
    /\ returned = [fn |-> "none"]
    /\ result_data = << >>

\* The state after start-up, before any request.
Idle ==
    /\ last_op = [op |-> "none"]
    /\ stats = NewStats
    /\ _is_processing = FALSE
    /\ runs = [r \in RunIds |-> NoRun]
    /\ tasks = [r \in RunIds |-> << >>]
    /\ semaphore = [r \in RunIds |-> 0]

\* One POST /process request over NumSamples uploaded samples, with any
\* answer of the remote services and repository calls that may raise.
Init ==
    /\ Idle
    /\ NoCallers
    /\ NoComparison
    /\ samples = [id \in 1..NumSamples |-> NewSample]
    /\ remote = AnyRemote
    /\ requests = 1
    /\ faults = MaxFaults

\* One POST /process request over BatchSamples uploaded samples, more than
\* the pipeline processes in parallel.
InitBatch ==
    /\ Idle
    /\ NoCallers
    /\ NoComparison
    /\ samples = [id \in 1..BatchSamples |-> NewSample]
    /\ remote = PlainRemote
    /\ requests = 1
    /\ faults = BatchFaults

\* MaxRequests POST /process requests over ApiSamples uploaded samples.
InitApi ==
    /\ Idle
    /\ NoCallers
    /\ NoComparison
    /\ samples = [id \in 1..ApiSamples |-> NewSample]
    /\ remote = PlainRemote
    /\ requests = MaxRequests
    /\ faults = 0

Next ==
    \/ \E body \in RequestBodies : start_processing(body)
    \/ \E r \in RunIds : RunBegins(r)
    \/ \E r \in RunIds : RunReturns(r)
    \/ \E r \in RunIds, i \in 1..MaxTasks : TaskStart(r, i)
    \/ \E r \in RunIds, i \in 1..MaxTasks : DatalabReturns(r, i)
    \/ \E r \in RunIds, i \in 1..MaxTasks : AzureReturns(r, i)
    \/ \E r \in RunIds, i \in 1..MaxTasks : GeminiReturns(r, i)
    \/ \E sample_id \in DOMAIN samples \cup { UnknownId },
          request \in ValidationRequests :
            validate_sample(sample_id, request)
    \/ \E sample_ids \in ResetArguments : reset_samples(sample_ids)

\* One adapter instance called by callers as given, from the time now on,
\* with a remote service that answers as given.
InitAdapter(cs, now, answers) ==
    /\ Idle
    /\ NoComparison
    /\ samples = << >>
    /\ remote = answers
    /\ requests = 0
    /\ faults = 0
    /\ clock = now
    /\ kind \in Adapters
    /\ _last_request_time = 0
    /\ callers = cs
    /\ outbound = << >>

\* MaxCallers concurrent tasks, each calling extract once on the adapter
\* instance they share.
InitShared ==
    InitAdapter([c \in 1..MaxCallers |-> NewCaller(1)], SharedStartTime,
                PlainRemote)

\* One caller making MaxExtracts extract calls one after the other.
InitSequential ==
    InitAdapter([c \in 1..1 |-> NewCaller(MaxExtracts)], StartTime,
                PlainRemote)

\* One extract call on an adapter whose remote service may answer anything.
InitRetries ==
    InitAdapter([c \in 1..1 |-> NewCaller(1)], StartTime, AnyRemote)

\* The inputs: two values, held by every field of the two outputs; or two
\* outputs that hold v everywhere but for the fields of F, where the second
\* holds w; or two outputs that have only their first n1 and n2 keys.
InitComparison ==
    /\ Idle
    /\ NoCallers
    /\ samples = << >>
    /\ remote = PlainRemote
    /\ requests = 0
    /\ faults = 0
    /\ returned = [fn |-> "none"]
    /\ result_data = << >>
    /\ \/ /\ val1 \in Values
          /\ val2 \in Values
          /\ datalab_output = [field \in FieldSet |-> val1]
          /\ gemini_output = [field \in FieldSet |-> val2]
       \/ \E F \in SUBSET FieldSet :
            /\ val1 \in DocValues
            /\ val2 \in DocValues
            /\ datalab_output = [field \in FieldSet |-> val1]
            /\ gemini_output =
                    [field \in FieldSet |-> IF field \in F THEN val2 ELSE val1]
       \/ \E n1 \in 0..Len(DDT_FIELDS), n2 \in 0..Len(DDT_FIELDS) :
            /\ val1 \in DocValues
            /\ val2 \in DocValues
            /\ datalab_output = Doc(val1, n1)
            /\ gemini_output = Doc(val2, n2)

\* Datalab's job is complete and has answered any of ResultDatas.
InitParse ==
    /\ Idle
    /\ NoCallers
    /\ samples = << >>
    /\ remote = PlainRemote
    /\ requests = 0
    /\ faults = 0
    /\ val1 = JNull
    /\ val2 = JNull
    /\ datalab_output = EmptyJson
    /\ gemini_output = EmptyJson
    /\ returned = [fn |-> "none"]
    /\ result_data \in ResultDatas

NextAdapter ==
    \/ Tick
    \/ \E c \in DOMAIN callers : Extract(c)
    \/ \E c \in DOMAIN callers : RateLimitWakes(c)
    \/ \E c \in DOMAIN callers : SubmitAnswered(c)
    \/ \E c \in DOMAIN callers : PollSleepEnds(c)
    \/ \E c \in DOMAIN callers : PollAnswered(c)
    \/ \E c \in DOMAIN callers : GenerateAnswered(c)
    \/ \E c \in DOMAIN callers : RetrySleepEnds(c)

Spec == Init /\ [][Next]_vars

SpecShared == InitShared /\ [][NextAdapter]_vars

SpecRetries == InitRetries /\ [][NextAdapter]_vars

\* Either one extract call on an adapter whose remote service may answer
\* anything, or one POST /process request over BatchSamples samples with a
\* repository call that may raise, the adapters being idle.
InitTermination ==
    \/ InitRetries
    \/ /\ Idle
       /\ NoComparison
       /\ samples = [id \in 1..BatchSamples |-> NewSample]
       /\ remote = PlainRemote
       /\ requests = 1
       /\ faults = BatchFaults
       /\ clock = StartTime + Horizon
       /\ kind = "datalab"
       /\ _last_request_time = 0
       /\ callers = << >>
       /\ outbound = << >>

NextTermination == Next \/ NextAdapter \/ SleepPasses

\* The steps of a batch run that the event loop takes by itself: the
\* background task starts, a coroutine enters the semaphore, an awaited
\* Datalab or Azure call returns, gather returns.
PipelineSteps ==
    \/ \E r \in RunIds : RunBegins(r)
    \/ \E r \in RunIds : RunReturns(r)
    \/ \E r \in RunIds, i \in 1..MaxTasks : TaskStart(r, i)
    \/ \E r \in RunIds, i \in 1..MaxTasks : DatalabReturns(r, i)
    \/ \E r \in RunIds, i \in 1..MaxTasks : AzureReturns(r, i)

\* No task waits for gemini.extract forever.  GeminiReturns(r, i) is
\* enabled exactly when task i of run r is at "gemini" and every such step
\* leaves "gemini", so this is weak fairness of GeminiReturns(r, i).
GeminiAnswers ==
    \A r \in RunIds, i \in 1..MaxTasks :
        []<>(i \in 1..Len(tasks[r]) => tasks[r][i].pc # "gemini")

\* Every request is answered, every repository call returns and every
\* sleep ends: the event loop runs a coroutine that is ready.  The client's
\* requests are not forced.
SpecTermination ==
    /\ InitTermination
    /\ [][NextTermination]_vars
    /\ WF_vars(NextAdapter \/ SleepPasses)
    /\ WF_vars(PipelineSteps)
    /\ GeminiAnswers

SpecSequential == InitSequential /\ [][NextAdapter]_vars

SpecBatch == InitBatch /\ [][Next]_vars

SpecApi == InitApi /\ [][Next]_vars

SpecComparison == InitComparison /\ [][NextComparison]_vars

SpecParse == InitParse /\ [][NextParse]_vars


(***************************************************************************)
(* Properties of process_single                                            *)
(***************************************************************************)
TaskIds == { ri \in RunIds \X (1..MaxTasks) : ri[2] <= Len(tasks[ri[1]]) }

Task(ri) == tasks[ri[1]][ri[2]]

Terminal == { "auto_validated", "needs_review", "error" }

\* The task has returned after comparing the two structured outputs: all
\* three adapters succeeded, both outputs are non-empty and no call raised.
Compared(t) ==
    /\ t.pc = "done"
    /\ t.handler = "none"
    /\ t.datalab_result # Nothing /\ t.datalab_result[1].success
    /\ t.azure_result # Nothing /\ t.azure_result[1].success
    /\ t.gemini_result # Nothing /\ t.gemini_result[1].success
    /\ Truthy(t.datalab_result[1].extracted_json)
    /\ Truthy(t.gemini_result[1].extracted_json)

\* The task has returned with the combined adapter's output only: Datalab
\* succeeded, path B did not complete and no call raised.
SingleSource(t) ==
    /\ t.pc = "done"
    /\ t.handler = "none"
    /\ t.datalab_result # Nothing /\ t.datalab_result[1].success
    /\ \/ t.azure_result = Nothing
       \/ ~t.azure_result[1].success
       \/ t.gemini_result = Nothing
       \/ ~t.gemini_result[1].success

\* C1: when Datalab, Azure and Gemini succeeded with non-empty structured
\* outputs, the comparator is run and its score is stored; the sample is
\* AUTO_VALIDATED with Datalab's output as validated_output and provenance
\* datalab if the score is at least 0.95, and otherwise NEEDS_REVIEW with no
\* validated_output written.
C1_ComparedClassification ==
    \A ri \in TaskIds :
        LET t   == Task(ri)
            row == samples[t.sample_id]
            ud  == t.update_data[1]
            ms  == calculate_match_score(t.datalab_result[1].extracted_json,
                                         t.gemini_result[1].extracted_json)
        IN  Compared(t) =>
                /\ row.match_score = Some([matches |-> ms.matches,
                                           total_fields |-> ms.total_fields])
                /\ IF ms.matches * 100 >= 95 * ms.total_fields
                   THEN /\ row.status = "auto_validated"
                        /\ row.validated_output =
                                Some(t.datalab_result[1].extracted_json)
                        /\ row.validation_source = "datalab"
                   ELSE /\ row.status = "needs_review"
                        /\ "validated_output" \notin DOMAIN ud
                        /\ row.validated_output = Nothing

\* The comparison ran and found seven of the eight fields equal: the
\* sample is NEEDS_REVIEW.
C1_Witness ==
    \E ri \in TaskIds :
        /\ Compared(Task(ri))
        /\ samples[Task(ri).sample_id].match_score =
                Some([matches |-> 7, total_fields |-> 8])
        /\ samples[Task(ri).sample_id].status = "needs_review"

\* C2: whenever Datalab succeeded and path B did not complete, the sample is
\* AUTO_VALIDATED with Datalab's output as resolution and no score.
C2_SingleSourceAccepted ==
    \A ri \in TaskIds :
        LET t   == Task(ri)
            row == samples[t.sample_id]
        IN  SingleSource(t) =>
                /\ row.status = "auto_validated"
                /\ row.validated_output =
                        Some(t.datalab_result[1].extracted_json)
                /\ row.match_score = Nothing

\* C3: whenever Datalab's extraction failed, no resolution is written and
\* the sample is ERROR as soon as a write of the task went through, whatever
\* Azure and Gemini returned.
C3_DatalabFailedIsError ==
    \A ri \in TaskIds :
        LET t   == Task(ri)
            row == samples[t.sample_id]
        IN  (/\ t.pc = "done"
             /\ t.datalab_result # Nothing
             /\ ~t.datalab_result[1].success) =>
                /\ row.validated_output = Nothing
                /\ t.update_data # Nothing =>
                        /\ t.update_data[1].status = "error"
                        /\ "validated_output" \notin DOMAIN t.update_data[1]
                /\ (t.update_data # Nothing
                        \/ t.handler \in { "done", "counters raised" }) =>
                        row.status = "error"

\* Datalab failed while Azure and Gemini succeeded, and the sample is ERROR.
C3_Witness ==
    \E ri \in TaskIds :
        LET t == Task(ri)
        IN  /\ t.pc = "done"
            /\ t.datalab_result # Nothing /\ ~t.datalab_result[1].success
            /\ t.gemini_result # Nothing /\ t.gemini_result[1].success
            /\ Truthy(t.gemini_result[1].extracted_json)
            /\ t.handler = "none"
            /\ samples[t.sample_id].status = "error"

\* The task ri returns in this step through the exception handler, after it
\* had marked its sample PROCESSING.
FaultHandled(ri) ==
    /\ ri \in TaskIds
    /\ Task(ri).pc # "done"
    /\ tasks'[ri[1]][ri[2]].pc = "done"
    /\ tasks'[ri[1]][ri[2]].marked
    /\ tasks'[ri[1]][ri[2]].handler # "none"

Incremented(counters) ==
    stats' = [k \in DOMAIN stats |->
                IF k \in counters THEN stats[k] + 1 ELSE stats[k]]

TaskReturns(ri) ==
    /\ ri \in TaskIds
    /\ Task(ri).pc # "done"
    /\ tasks'[ri[1]][ri[2]].pc = "done"

\* C15: process_single on an id without a sample record returns a failed
\* result and leaves dataset_samples and processing_stats as they are; the
\* result carries the not-found error unless the lookup itself raised.
C15_UnknownIdLeavesStore ==
    [][\A ri \in RunIds \X (1..MaxTasks) :
        (TaskReturns(ri) /\ Task(ri).sample_id \notin DOMAIN samples) =>
            LET t == tasks'[ri[1]][ri[2]]
            IN  /\ ~t.result[1].success
                /\ t.result[1].status = "error"
                /\ t.error_msg # StoreFault =>
                        t.result[1].error_message = NotFound
                /\ samples' = samples
                /\ stats' = stats]_vars

\* process_single has returned the not-found error for an unknown id.
C15_Witness ==
    \E ri \in TaskIds :
        /\ Task(ri).pc = "done"
        /\ Task(ri).sample_id \notin DOMAIN samples
        /\ Task(ri).result = Some(ProcessingResult(FALSE, "error", Nothing,
                                                   NotFound))

(***************************************************************************)
(* Properties of process_all_pending and of POST /process                  *)
(***************************************************************************)
\* The process_single calls of run r between the PROCESSING mark and the
\* return.
InFlight(r) ==
    { i \in 1..Len(tasks[r]) :
        tasks[r][i].pc \in { "datalab", "azure", "gemini" } }

\* The run r was a process_all_pending call over a non-empty pending set.
BatchRun(r) ==
    /\ runs[r].resp = 200
    /\ runs[r].sample_ids = Nothing
    /\ tasks[r] # << >>

\* C6: a fault in one sample's task does not keep the other tasks from
\* running.  When process_all_pending is over, every task has returned;
\* unless clearing the flag raised, a summary is returned whose
\* total_processed is the number of pending samples fetched; and every
\* sample whose own task met no fault is AUTO_VALIDATED, NEEDS_REVIEW or
\* ERROR.
C6_FaultDoesNotAbortBatch ==
    \A r \in RunIds :
        (BatchRun(r) /\ runs[r].pc = "ended") =>
            /\ \A i \in 1..Len(tasks[r]) : tasks[r][i].pc = "done"
            /\ runs[r].error = None => runs[r].summary # Nothing
            /\ runs[r].summary # Nothing =>
                    runs[r].summary[1].total_processed = Len(tasks[r])
            /\ \A i \in 1..Len(tasks[r]) :
                    tasks[r][i].handler = "none" =>
                        /\ tasks[r][i].result[1].status \in Terminal
                        /\ samples[tasks[r][i].sample_id].status \in Terminal

\* A batch has returned its summary although the handler of one task could
\* not even record the fault, and another sample was classified.
C6_Witness ==
    \E r \in RunIds :
        /\ BatchRun(r) /\ runs[r].pc = "ended"
        /\ runs[r].summary # Nothing
        /\ runs[r].summary[1].total_processed = BatchSamples
        /\ \E i \in 1..Len(tasks[r]), j \in 1..Len(tasks[r]) :
            /\ tasks[r][i].handler = "update raised"
            /\ tasks[r][j].handler = "none"
            /\ samples[tasks[r][j].sample_id].status = "needs_review"

\* The runs whose request was accepted and that have not ended.
ActiveRuns == { r \in RunIds : runs[r].pc \in { "queued", "running" } }

\* C7: at most one batch run is active at any time.
C7_OneActiveRun == Cardinality(ActiveRuns) <= 1

\* C8: during process_all_pending, at most MAX_PARALLEL_PDFS samples are
\* in processing at the same time.
C8_BoundedParallelism ==
    \A r \in RunIds : Cardinality(InFlight(r)) <= MAX_PARALLEL_PDFS

\* All slots are taken and one more sample of the batch waits for a slot.
C8_Witness ==
    \E r \in RunIds :
        /\ BatchRun(r)
        /\ Cardinality(InFlight(r)) = MAX_PARALLEL_PDFS
        /\ \E i \in 1..Len(tasks[r]) : tasks[r][i].pc = "new"

\* The samples of the tasks of run r that have the status s.
Ended(r, s) ==
    { i \in 1..Len(tasks[r]) : samples[tasks[r][i].sample_id].status = s }

\* C11: when a batch over N pending samples is over and every write of the
\* tasks' fault handlers went through, processed has grown by N and
\* auto_validated, needs_review and errors by the number of samples that
\* ended in each status.
C11_CountersExact ==
    \A r \in RunIds :
        (/\ BatchRun(r) /\ runs[r].pc = "ended"
         /\ \A i \in 1..Len(tasks[r]) :
                tasks[r][i].handler \in { "none", "done" }) =>
            /\ stats.processed = Len(tasks[r])
            /\ stats.auto_validated = Cardinality(Ended(r, "auto_validated"))
            /\ stats.needs_review = Cardinality(Ended(r, "needs_review"))
            /\ stats.errors = Cardinality(Ended(r, "error"))

\* A batch over BatchSamples samples is over with samples in each of the
\* three statuses.
C11_Witness ==
    \E r \in RunIds :
        /\ BatchRun(r) /\ runs[r].pc = "ended"
        /\ \A i \in 1..Len(tasks[r]) :
                tasks[r][i].handler \in { "none", "done" }
        /\ stats.processed = BatchSamples
        /\ stats.auto_validated = 1
        /\ stats.needs_review = 1
        /\ stats.errors = 1

(***************************************************************************)
(* Properties of the adapters                                              *)
(***************************************************************************)
\* C4: no extract call of an adapter lets an exception escape to
\* process_single, whatever it is given: no task ends in the handler of
\* process_single with the TypeError of an extract call.
C4_ExtractNeverRaises ==
    \A ri \in TaskIds : Task(ri).error_msg # TypeErrorNoLen

\* C9: with several tasks on one adapter instance whose requests all pass
\* through _rate_limit, any two requests of the instance start at least
\* _min_interval apart.
C9_SharedCallsSpaced ==
    kind \in { "datalab", "gemini" } =>
        \A m \in 1..Len(outbound), n \in 1..Len(outbound) :
            m < n => outbound[n].time - outbound[m].time >= _min_interval

\* C10: with one sequential caller, any two consecutive requests of an
\* adapter instance, submissions and polls alike, start at least
\* _min_interval apart.
C10_SequentialCallsSpaced ==
    \A n \in 1..(Len(outbound) - 1) :
        outbound[n + 1].time - outbound[n].time >= _min_interval

\* The number of requests of a kind that the caller c has started.
Requests(c, request) ==
    Cardinality({ n \in 1..Len(outbound) :
                    /\ outbound[n].caller = c
                    /\ outbound[n].request = request })

\* C12 as stated: in both submit-then-poll adapters a rate-limit failure
\* result is returned only after the submission was retried: MaxRetries + 1
\* submissions were made, each answered 429.
C12_SubmitRetriedOn429 ==
    kind \in { "datalab", "azure" } =>
        \A c \in DOMAIN callers :
            /\ Requests(c, "submit") <= MaxRetries + 1
            /\ callers[c].result = Some(Failure(RateLimitExceeded)) =>
                    Requests(c, "submit") = MaxRetries + 1

\* C13 as stated: in both submit-then-poll adapters one extract makes at
\* most MaxPolls polls, and when it returns after MaxPolls polls of which
\* the last did not give a terminal status, the result is a failure with
\* the timeout message.
C13_BudgetExhaustedIsTimeout ==
    kind \in { "datalab", "azure" } =>
        \A c \in DOMAIN callers :
            /\ Requests(c, "poll") <= MaxPolls
            /\ (/\ callers[c].result # Nothing
                /\ Requests(c, "poll") = MaxPolls
                /\ callers[c].answer \notin { "complete", "failed" }) =>
                    callers[c].result = Some(Failure(PollTimeout))

\* C14: one extract of the Gemini adapter makes at most max_retries + 1
\* model calls.  After a call, extract sleeps 2 * attempt seconds and calls
\* again only if the text did not parse and retries are left; after the
\* last unparsable text it returns the invalid-JSON failure; after a
\* timeout, a quota error or any other error it returns a failure at once;
\* and a call other than the first follows an unparsable text.
C14_ParseRetriesOnly ==
    [][kind = "gemini" =>
        \A c \in DOMAIN callers :
            LET old == callers[c]
                new == callers'[c]
            IN  /\ (Requests(c, "generate"))' <= GeminiMaxRetries + 1
                /\ (Requests(c, "generate"))' > Requests(c, "generate") =>
                        (new.attempt > 1 => old.answer = "not json")
                /\ (old.pc = "request" /\ new # old) =>
                        IF /\ new.answer = "not json"
                           /\ old.attempt <= GeminiMaxRetries
                        THEN /\ new.pc = "sleep"
                             /\ new.wake = clock + 2 * old.attempt
                             /\ new.attempt = old.attempt + 1
                        ELSE /\ new.pc = "idle"
                             /\ new.result # Nothing
                             /\ new.result[1].success = (new.answer = "json")
                             /\ new.answer = "not json" =>
                                    /\ new.result[1] = Failure(InvalidJSON)
                                    /\ Requests(c, "generate") =
                                            GeminiMaxRetries + 1]_vars

\* The Gemini adapter has returned the invalid-JSON failure after
\* max_retries + 1 calls.
C14_Witness ==
    /\ kind = "gemini"
    /\ \E c \in DOMAIN callers :
        /\ callers[c].result = Some(Failure(InvalidJSON))
        /\ Requests(c, "generate") = GeminiMaxRetries + 1

(***************************************************************************)
(* Properties of the sample records                                        *)
(***************************************************************************)
\* How far a status is along PENDING -> PROCESSING -> terminal.
Rank(status) ==
    CASE status = "pending" -> 0
      [] status = "processing" -> 1
      [] OTHER -> 2

\* C16 as stated: in every step other than a reset_samples call, no
\* sample's status moves backwards along PENDING -> PROCESSING -> terminal.
C16_ForwardOnly ==
    [][\/ \E sample_ids \in ResetArguments : reset_samples(sample_ids)
       \/ \A id \in DOMAIN samples :
            Rank(samples'[id].status) >= Rank(samples[id].status)]_vars

\* C17 as stated: a sample with status ERROR has no validated_output.
C17_ErrorHasNoResolution ==
    \A id \in DOMAIN samples :
        samples[id].status = "error" =>
            samples[id].validated_output = Nothing

\* C18 as stated: match_score is set if and only if datalab_json and
\* gemini_json are both stored on the sample.
C18_ScoreIffBothOutputs ==
    \A id \in DOMAIN samples :
        (samples[id].match_score # Nothing) <=>
            (/\ samples[id].datalab_json # Nothing
             /\ samples[id].gemini_json # Nothing)

\* C19 as stated: when a process_single call that had marked its sample
\* PROCESSING returns, the sample is AUTO_VALIDATED, NEEDS_REVIEW or ERROR.
C19_ReturnedNotProcessing ==
    [][\A ri \in RunIds \X (1..MaxTasks) :
        (TaskReturns(ri) /\ tasks'[ri[1]][ri[2]].marked) =>
            samples'[Task(ri).sample_id].status \in Terminal]_vars

\* The samples a reset_samples call is aimed at: those of the ids given,
\* or all of them when no list is given.
Targeted(sample_ids) ==
    IF sample_ids = Nothing THEN DOMAIN samples
    ELSE { id \in DOMAIN samples :
            \E n \in 1..Len(sample_ids[1]) : sample_ids[1][n] = id }

\* C20 as stated: a reset_samples call that does not raise leaves every
\* targeted sample PENDING with all extraction, comparison and resolution
\* fields cleared and its filename and storage reference as they were, and
\* leaves every other sample as it was.
C20_ResetFrame ==
    [][\A sample_ids \in ResetArguments :
        (reset_samples(sample_ids) /\ faults' = faults) =>
            \A id \in DOMAIN samples :
                IF id \in Targeted(sample_ids)
                THEN samples'[id] =
                        [NewSample EXCEPT
                            !.filename = samples[id].filename,
                            !.pdf_storage_path = samples[id].pdf_storage_path]
                ELSE samples'[id] = samples[id]]_vars

(***************************************************************************)
(* Properties of a failed download                                         *)
(***************************************************************************)
\* The task has returned after get_pdf_bytes gave None for its sample.
NoBytes(t) == t.pc = "done" /\ t.marked /\ t.pdf_bytes = None

\* C21: when the blob store returns no bytes for a sample, the TypeError of
\* the first line of datalab.extract is caught by process_single: no
\* extraction runs, the call returns a failed result with that text and
\* gives its semaphore slot back; once the handler's writes went through the
\* sample is ERROR with the text and errors and processed count it; and
\* when the batch is over every other sample whose task met no fault is
\* AUTO_VALIDATED, NEEDS_REVIEW or ERROR.
C21_NoBytesIsError ==
    \A r \in RunIds :
        /\ runs[r].pc = "running" =>
                semaphore[r] = MAX_PARALLEL_PDFS - Cardinality(InFlight(r))
        /\ stats.errors =
                Cardinality({ ri \in TaskIds :
                    \/ Task(ri).handler = "done"
                    \/ /\ Task(ri).pc = "done" /\ Task(ri).handler = "none"
                       /\ Task(ri).result[1].status = "error" })
        /\ \A i \in 1..Len(tasks[r]) :
            LET t == tasks[r][i]
            IN  NoBytes(t) =>
                    /\ t.datalab_result = Nothing
                    /\ t.update_data = Nothing
                    /\ t.result = Some(ProcessingResult(FALSE, "error",
                                            Nothing, TypeErrorNoLen))
                    /\ t.handler # "none"
                    /\ t.handler = "done" =>
                        /\ samples[t.sample_id].status = "error"
                        /\ samples[t.sample_id].datalab_error =
                                TypeErrorNoLen
                        /\ samples[t.sample_id].validated_output = Nothing
                        /\ stats.errors >= 1 /\ stats.processed >= 1
                    /\ (BatchRun(r) /\ runs[r].pc = "ended") =>
                        \A j \in 1..Len(tasks[r]) :
                            tasks[r][j].handler = "none" =>
                                samples[tasks[r][j].sample_id].status
                                    \in Terminal

\* A batch is over in which the download failed for one sample, now ERROR
\* and counted, while the two other samples were compared.
C21_Witness ==
    \E r \in RunIds :
        /\ BatchRun(r) /\ runs[r].pc = "ended"
        /\ stats.errors = 1 /\ stats.processed = BatchSamples
        /\ \E i \in 1..Len(tasks[r]) :
            /\ NoBytes(tasks[r][i])
            /\ tasks[r][i].handler = "done"
            /\ samples[tasks[r][i].sample_id].status = "error"
            /\ \A j \in 1..Len(tasks[r]) :
                j # i => /\ tasks[r][j].pdf_bytes = "pdf"
                         /\ tasks[r][j].gemini_result # Nothing

(***************************************************************************)
(* Properties of the pending set                                           *)
(***************************************************************************)
\* C22 as stated: process_all_pending creates its tasks from the samples
\* that are PENDING when it reads them, one task per sample, and the tasks
\* of the run stay the same from then on; when it has returned, none of
\* the samples it read is PENDING.
C22_PendingSetProcessed ==
    [][\A r \in RunIds :
        /\ (runs[r].pc = "queued" /\ runs[r].sample_ids = Nothing
                /\ runs'[r].pc = "running") =>
              /\ { tasks'[r][i].sample_id : i \in 1..Len(tasks'[r]) } =
                    { id \in DOMAIN samples : samples[id].status = "pending" }
              /\ Len(tasks'[r]) =
                    Cardinality({ id \in DOMAIN samples :
                                    samples[id].status = "pending" })
        /\ runs[r].pc = "running" =>
              [i \in 1..Len(tasks'[r]) |-> tasks'[r][i].sample_id] =
              [i \in 1..Len(tasks[r]) |-> tasks[r][i].sample_id]
        /\ (runs[r].pc = "running" /\ runs[r].sample_ids = Nothing
                /\ runs'[r].pc = "ended") =>
              \A i \in 1..Len(tasks[r]) :
                  /\ tasks[r][i].pc = "done"
                  /\ samples'[tasks[r][i].sample_id].status # "pending"]_vars

(***************************************************************************)
(* Properties of the comparison functions                                  *)
(***************************************************************************)
\* C23 as stated: normalize is idempotent: called on what it returned, it
\* returns the same value again.
C23_NormalizeIdempotent ==
    [][(/\ returned.fn = "normalize"
        /\ returned'.fn = "normalize"
        /\ returned'.args = << returned.value >>) =>
            returned'.value = returned.value]_vars

\* C24 as stated: values_match is reflexive and symmetric, on the exact
\* path and on the fuzzy path: what it returns for (val1, val2) it returns
\* for (val2, val1), and it returns true for (val1, val1).
C24_MatchReflexiveSymmetric ==
    returned.fn = "values_match" =>
        /\ returned.value = values_match(returned.args[2], returned.args[1])
        /\ values_match(returned.args[1], returned.args[1])

\* C25: for every pair of outputs the score matches / total_fields lies in
\* [0, 1], it is 1 if and only if the list of discrepancies is empty, and
\* every discrepancy is one of the 8 comparison fields.
C25_ScoreRangeAndPerfect ==
    returned.fn = "calculate_match_score" =>
        LET score == returned.value
        IN  /\ score.total_fields = 8
            /\ 0 <= score.matches
            /\ score.matches <= score.total_fields
            /\ (score.matches = score.total_fields)
                    <=> (score.discrepancies = << >>)
            /\ \A n \in 1..Len(score.discrepancies) :
                    score.discrepancies[n] \in FieldSet

\* Scores of 1 and of 5/8 were returned, the latter with three
\* discrepancies.
C25_Witness ==
    /\ returned.fn = "calculate_match_score"
    /\ returned.value.matches = 5
    /\ Len(returned.value.discrepancies) = 3

\* C26: the discrepancies are exactly the comparison fields whose two
\* values do not match, each once and in the order of DDT_FIELDS; the score
\* is (8 - number of discrepancies) / 8; and a field that is null or absent
\* in one output and has a value in the other is a discrepancy.
C26_DiscrepanciesExact ==
    returned.fn = "calculate_match_score" =>
        LET first == returned.args[1]
            second == returned.args[2]
            score == returned.value
            listed == { score.discrepancies[n] :
                            n \in 1..Len(score.discrepancies) }
            differ == { field \in FieldSet :
                            ~values_match(Get(first, field),
                                          Get(second, field)) }
        IN  /\ listed = differ
            /\ Len(score.discrepancies) = Cardinality(differ)
            /\ \A m \in 1..Len(score.discrepancies),
                  n \in 1..Len(score.discrepancies) :
                    m < n =>
                        \E i \in 1..Len(DDT_FIELDS), j \in 1..Len(DDT_FIELDS) :
                            /\ i < j
                            /\ DDT_FIELDS[i] = score.discrepancies[m]
                            /\ DDT_FIELDS[j] = score.discrepancies[n]
            /\ score.total_fields = 8
            /\ score.matches = 8 - Len(score.discrepancies)
            /\ \A field \in FieldSet :
                    (/\ field \notin DOMAIN first \/ first[field] = JNull
                     /\ field \in DOMAIN second
                     /\ second[field] # JNull) =>
                        field \in listed
            /\ \A field \in FieldSet :
                    (/\ field \notin DOMAIN second \/ second[field] = JNull
                     /\ field \in DOMAIN first
                     /\ first[field] # JNull) =>
                        field \in listed

\* The two outputs agree on seven fields and the last field is absent from
\* the second output: it is the one discrepancy and the score is 7/8.
C26_Witness ==
    /\ returned.fn = "calculate_match_score"
    /\ DOMAIN returned.args[1] = FieldSet
    /\ DOMAIN returned.args[2] = FieldSet \ { "codice_cliente" }
    /\ returned.value.discrepancies = << "codice_cliente" >>
    /\ returned.value.matches = 7

\* C27: when step 6 of process_single compares two non-empty outputs, the
\* score is stored and the status is AUTO_VALIDATED if and only if the
\* score is at least 0.95; with 8 fields this is the case of no
\* discrepancy, and a score of 7/8 gives NEEDS_REVIEW.
C27_ThresholdInclusive ==
    (/\ returned.fn = "process_single"
     /\ Truthy(returned.args[1])
     /\ Truthy(returned.args[2])) =>
        LET ms == calculate_match_score(returned.args[1], returned.args[2])
            c  == returned.value
        IN  /\ c.match_score = Some([matches |-> ms.matches,
                                     total_fields |-> ms.total_fields])
            /\ c.status \in { "auto_validated", "needs_review" }
            /\ (c.status = "auto_validated")
                    <=> (ms.matches * 100 >= 95 * ms.total_fields)
            /\ (c.status = "auto_validated") <=> (ms.discrepancies = << >>)
            /\ ms.matches = 7 => c.status = "needs_review"

\* Two outputs that agree on seven fields of eight were compared: the
\* status is NEEDS_REVIEW.
C27_Witness ==
    /\ returned.fn = "process_single"
    /\ returned.value.match_score = Some([matches |-> 7, total_fields |-> 8])
    /\ returned.value.status = "needs_review"
    /\ Len(returned.value.discrepancies) = 1

TerminalStatuses == { "complete", "failed" }

\* C29: in both submit-then-poll adapters, a poll answered with a terminal
\* status makes extract return at once, without a further request; a poll
\* answered with anything else, an unknown status included, is followed by
\* the sleep before the next poll as long as polls are left; and the sleep
\* before a poll that is left ends with that poll being started.
C29_PollStopsOnTerminalOnly ==
    [][(kind \in { "datalab", "azure" }) =>
        \A c \in DOMAIN callers :
            LET old == callers[c]
                new == callers'[c]
            IN  /\ (/\ old.pc = "request" /\ old.request = "poll"
                    /\ new # old /\ new.answer \in TerminalStatuses) =>
                        /\ new.pc = "idle"
                        /\ new.result # Nothing
                        /\ new.result[1].success = (new.answer = "complete")
                        /\ outbound' = outbound
                /\ (/\ old.pc = "request" /\ old.request = "poll"
                    /\ new # old /\ new.answer \notin TerminalStatuses
                    /\ old.attempt < MaxPolls) =>
                        /\ new.pc = "sleep"
                        /\ new.request = "poll"
                        /\ new.attempt = old.attempt + 1
                        /\ new.result = Nothing
                /\ (/\ old.pc = "sleep" /\ old.request = "poll"
                    /\ new # old /\ old.attempt <= MaxPolls) =>
                        /\ new.pc \in { "request", "rate_limit" }
                        /\ new.request = "poll"
                        /\ new.attempt = old.attempt
                /\ (old.pc = "idle" /\ old.result # Nothing) => new = old]_vars

\* A first poll was answered with something other than a terminal status,
\* a second poll followed and was answered "complete": extract has returned
\* success after two polls.
C29_Witness ==
    /\ kind \in { "datalab", "azure" }
    /\ \E c \in DOMAIN callers :
        /\ callers[c].result = Some(Success)
        /\ callers[c].attempt = 0
        /\ Requests(c, "poll") = 2

Fetched(t) ==
    \/ t.pdf_bytes # None
    \/ t.pc \in { "datalab", "azure", "gemini" }
    \/ t.datalab_result # Nothing
    \/ t.azure_result # Nothing
    \/ t.gemini_result # Nothing

\* C31: in every process_single call the write of status PROCESSING comes
\* before the bytes are fetched and before any adapter is called: a task
\* that holds bytes or has called an adapter has written the mark, and
\* when the first adapter call is under way the stored status is
\* PROCESSING.
C31_MarkedBeforeFetch ==
    [][\A ri \in RunIds \X (1..MaxTasks) :
        ri[2] <= Len(tasks'[ri[1]]) =>
            LET new == tasks'[ri[1]][ri[2]]
            IN  /\ Fetched(new) => new.marked
                /\ (/\ ri \in TaskIds
                    /\ Task(ri).pc = "new"
                    /\ new.pc = "datalab") =>
                        /\ ~Fetched(Task(ri))
                        /\ samples'[new.sample_id].status = "processing"]_vars

\* The bytes were fetched and Datalab's extract is under way; the sample
\* is stored as PROCESSING.
C31_Witness ==
    \E ri \in TaskIds :
        /\ Task(ri).pc = "datalab"
        /\ Task(ri).marked
        /\ Task(ri).pdf_bytes = "pdf"
        /\ samples[Task(ri).sample_id].status = "processing"

\* C32: per processing of a sample the combined adapter is called exactly
\* once; the OCR adapter is attempted whether or not the combined adapter
\* succeeded; and the text-to-JSON adapter is called if and only if the OCR
\* adapter returned success, and only after the OCR call completed.  A task
\* that wrote the mark has called Datalab, in the step that took it out of
\* "new".
C32_AdapterCalls ==
    [][\A ri \in RunIds \X (1..MaxTasks) :
        (ri \in TaskIds /\ tasks'[ri[1]][ri[2]] # Task(ri)) =>
            LET old == Task(ri)
                new == tasks'[ri[1]][ri[2]]
            IN  /\ new.pc = "datalab" => old.pc = "new"
                /\ old.pc = "datalab" => new.pc = "azure"
                /\ (new.marked /\ new.pc = "done") =>
                        old.pc \in { "azure", "gemini" }
                /\ old.pc = "azure" =>
                        (new.pc = "gemini" <=>
                            /\ new.azure_result # Nothing
                            /\ new.azure_result[1].success)
                /\ new.pc = "gemini" =>
                        /\ old.pc = "azure"
                        /\ new.azure_result # Nothing
                /\ new.gemini_result # Nothing => old.pc = "gemini"]_vars

\* C33: whichever branch of step 6 is taken, a process_single call that
\* returns normally has stored the outcome of every adapter that returned:
\* on success its payload and a null error, on failure a null payload and
\* its error text, and its processing time in both cases; so when Datalab
\* failed, Azure's text and Gemini's output are stored all the same.
C33_ArtifactsPersisted ==
    [][\A ri \in RunIds \X (1..MaxTasks) :
        (TaskReturns(ri) /\ tasks'[ri[1]][ri[2]].handler = "none") =>
            LET t   == tasks'[ri[1]][ri[2]]
                row == samples'[t.sample_id]
                d   == t.datalab_result[1]
                a   == t.azure_result[1]
                g   == t.gemini_result[1]
            IN  /\ t.datalab_result # Nothing
                /\ row.datalab_processing_time_ms = Some(d.processing_time_ms)
                /\ IF d.success
                   THEN /\ row.datalab_raw_ocr = d.raw_ocr
                        /\ row.datalab_json = Some(d.extracted_json)
                        /\ row.datalab_error = None
                   ELSE /\ row.datalab_raw_ocr = None
                        /\ row.datalab_json = Nothing
                        /\ row.datalab_error = d.error_message
                        /\ row.datalab_error # None
                /\ t.azure_result # Nothing =>
                    /\ row.azure_processing_time_ms =
                            Some(a.processing_time_ms)
                    /\ IF a.success
                       THEN /\ row.azure_raw_ocr = a.raw_text
                            /\ row.azure_error = None
                       ELSE /\ row.azure_raw_ocr = None
                            /\ row.azure_error = a.error_message
                            /\ row.azure_error # None
                /\ t.gemini_result # Nothing =>
                    /\ row.gemini_processing_time_ms =
                            Some(g.processing_time_ms)
                    /\ IF g.success
                       THEN /\ row.gemini_json = Some(g.extracted_json)
                            /\ row.gemini_error = None
                       ELSE /\ row.gemini_json = Nothing
                            /\ row.gemini_error = g.error_message
                            /\ row.gemini_error # None]_vars

\* Datalab failed, Azure and Gemini succeeded, and the sample holds
\* Datalab's error text next to Azure's text and Gemini's output.
C33_Witness ==
    \E ri \in TaskIds :
        LET t   == Task(ri)
            row == samples[t.sample_id]
        IN  /\ t.pc = "done" /\ t.handler = "none"
            /\ ~t.datalab_result[1].success
            /\ row.datalab_error = t.datalab_result[1].error_message
            /\ row.datalab_json = Nothing
            /\ row.azure_raw_ocr = "content"
            /\ row.gemini_json = Some(DocGeminiSame)
            /\ row.gemini_error = None

(***************************************************************************)
(* Properties of the parsing of Datalab's results                          *)
(***************************************************************************)

\* The texts of at most MaxTokens + 2 tokens that are JSON values, built
\* from the grammar: a string, null, an array or an object of at most one
\* member.
JsonTexts ==
    LET RECURSIVE Gen(_)
        Gen(n) ==
            IF n = 0
            THEN { << "\"a\"" >>, << "null" >>, << "[", "]" >>,
                   << "{", "}" >> }
            ELSE LET g == Gen(n - 1)
                 IN  g \cup { << "[" >> \o v \o << "]" >> : v \in g }
                       \cup { << "{", "\"a\"", ":" >> \o v \o << "}" >> :
                                v \in g }
    IN  Gen(MaxTokens)

C35_ErrorHasReason ==
    [][\A ri \in RunIds \X (1..MaxTasks) :
        (/\ TaskReturns(ri)
         /\ Task(ri).sample_id \in DOMAIN samples
         /\ samples'[Task(ri).sample_id].status = "error") =>
            LET row == samples'[Task(ri).sample_id]
            IN  \/ row.datalab_error # None
                \/ row.azure_error # None
                \/ row.gemini_error # None]_vars

(***************************************************************************)
(* Properties of the summary of a batch                                    *)
(***************************************************************************)

\* C36: in the summary process_all_pending returns, successful + failed =
\* total_processed, successful = auto_validated + needs_review, and failed
\* is the number of samples of the run whose status is ERROR when the run
\* returns.
C36_SummaryConsistent ==
    [][\A r \in RunIds :
        (/\ runs[r].pc = "running"
         /\ runs'[r].pc = "ended"
         /\ runs'[r].summary # Nothing) =>
            LET summary == runs'[r].summary[1]
                in_error == { i \in 1..Len(tasks[r]) :
                                samples'[tasks[r][i].sample_id].status
                                    = "error" }
            IN  /\ summary.successful + summary.failed
                        = summary.total_processed
                /\ summary.successful
                        = summary.auto_validated + summary.needs_review
                /\ summary.failed = Cardinality(in_error)]_vars

(***************************************************************************)
(* Properties of the in-progress flags                                     *)
(***************************************************************************)

\* C37: when the background task of a batch ends, by whatever path, the
\* module-level flag is false, so that the next POST /process is not
\* answered 409 because of this run; and when the task went through
\* process_all_pending, the persisted is_processing flag is false as well,
\* unless the call that sets it raised before the flag was written.
C37_FlagsCleared ==
    [][\A r \in RunIds :
        (runs[r].pc \in { "queued", "running" } /\ runs'[r].pc = "ended") =>
            /\ _is_processing' = FALSE
            /\ (/\ runs[r].sample_ids = Nothing
                /\ stats'.is_processing) =>
                    /\ runs[r].pc = "queued"
                    /\ stats' = stats]_vars

(***************************************************************************)
(* Properties of the outcome on a cleared sample                           *)
(***************************************************************************)

C39_ExtractTerminates ==
    /\ [](/\ \A c \in DOMAIN callers :
            /\ Requests(c, "submit")
                    <= (IF kind = "azure" THEN MaxRetries + 1 ELSE 1)
            /\ Requests(c, "poll") <= MaxPolls
            /\ Requests(c, "generate") <= GeminiMaxRetries + 1
          /\ \A r \in RunIds :
            (runs[r].pc = "running" \/ tasks[r] # << >>) =>
                semaphore[r] + Cardinality(InFlight(r)) = MAX_PARALLEL_PDFS)
    /\ <>[](/\ \A c \in DOMAIN callers :
                /\ callers[c].pc = "idle"
                /\ callers[c].extracts = 0
                /\ callers[c].result # Nothing
            /\ \A r \in RunIds :
                /\ runs[r].pc \in { "none", "ended" }
                /\ \A i \in 1..Len(tasks[r]) :
                    /\ tasks[r][i].pc = "done"
                    /\ tasks[r][i].result # Nothing)

\* Azure's extract has used up both loops: it submitted max_retries + 1
\* times, polled max_polls times and returned the timeout failure.
C39_Witness ==
    /\ kind = "azure"
    /\ \E c \in DOMAIN callers :
        /\ callers[c].pc = "idle"
        /\ callers[c].result = Some(Failure(PollTimeout))
        /\ Requests(c, "submit") = MaxRetries + 1
        /\ Requests(c, "poll") = MaxPolls

====
